---- MODULE Spec2Model ----
(***************************************************************************)
(* Model of the offering-extraction engine of the web crawler:             *)
(* NavigationLinkFollower (URL classification, link discovery) and         *)
(* ServicePageExtractor / ServiceListingExtractor (keyword aggregation and *)
(* de-duplication), src/service_extractor.py.                              *)
(*                                                                         *)
(* Python str values are TLA+ strings; Len, SubSeq and \o act on them as   *)
(* on sequences of characters.                                             *)
(***************************************************************************)
EXTENDS Integers, Sequences, FiniteSets, TLC

VARIABLES
  pc,              \* position of the operation under analysis
  url,             \* is_offering_url / classify_offering_url: argument
  url_offering,    \* is_offering_url: returned value
  url_type,        \* classify_offering_url: returned value
  html_content,    \* find_service_links: the homepage document
  base_url,        \* find_service_links: URL the hrefs are resolved against
  max_links,       \* find_service_links: cap on the returned list
  offering_links,  \* find_service_links: returned list
  keywords_dict,   \* deduplicate_keywords: argument (dict in insertion order)
  deduplicated,    \* deduplicate_keywords: returned dict
  page,            \* extract_keywords: the document under analysis
  page_url,        \* extract_keywords: its URL
  all_keywords,    \* extract_keywords: the dict built by the latest call
  first_call,      \* what the first call on (page, page_url) returned
  second_call,     \* what the second call on (page, page_url) returned
  interleaved,     \* another document was extracted between the two calls
  candidate,       \* is_valid_offering_keyword: argument text
  source_method,   \* is_valid_offering_keyword: argument extraction_method
  is_valid,        \* is_valid_offering_keyword: returned value
  parser_soup,     \* MenuParser.soup of the parser the workers share
  worker_pc,       \* MenuParser.parse: position of each worker
  worker_html,     \* MenuParser.parse: the document of each worker
  worker_items,    \* _extract_menu_items: all_items of each worker
  worker_result,   \* MenuParser.parse: what each worker was returned
  raw_text,        \* normalize_keyword / sanitize_text: argument
  normalized,      \* normalize_keyword: returned value
  sanitized,       \* sanitize_text: returned value
  crawl_status,    \* table companies: crawl_status of each company
  is_active,       \* table companies: is_active of each company
  row_lock,        \* the transaction that holds each company row FOR UPDATE
  crawl_jobs,      \* table crawl_jobs, job_id being the position
  run_pc,          \* WebCrawler.run: position of each crawler process
  run_company,     \* WebCrawler.run: company of each process
  run_job,         \* WebCrawler.run: job_id of each process
  run_result,      \* WebCrawler.run: menu_result and service_result
  should_stop,     \* WebCrawler.should_stop of each process
  processed,
  \* WebCrawler.crawl_services
  svc_pc, svc_links, svc_idx, svc_result, svc_attempted, svc_homepage,
  \* MigrationManager
  migration_files, schema_migrations, executed, command        \* WebCrawler.run: processed of each process

urlVars     == <<url, url_offering, url_type>>
linkVars    == <<html_content, base_url, max_links, offering_links>>
dedupVars   == <<keywords_dict, deduplicated>>
extractVars == <<page, page_url, all_keywords, first_call, second_call,
                 interleaved>>

validVars   == <<candidate, source_method, is_valid>>

menuVars    == <<parser_soup, worker_pc, worker_html, worker_items,
                 worker_result>>

\* the variables of the parser, the text utilities, the crawler and the
\* migrations
textVars    == <<raw_text, normalized, sanitized>>

crawlVars   == <<crawl_status, is_active, row_lock, crawl_jobs, run_pc,
                 run_company, run_job, run_result, should_stop, processed>>

serviceVars == <<svc_pc, svc_links, svc_idx, svc_result, svc_attempted,
                 svc_homepage>>
migrateVars == <<migration_files, schema_migrations, executed, command>>
toolVars    == <<serviceVars, migrateVars>>
systemVars  == <<menuVars, textVars, crawlVars, toolVars>>

vars == <<pc, urlVars, linkVars, dedupVars, extractVars, validVars,
          systemVars>>

None == "None"

\* the variables of the operations a specification does not exercise
UrlIdle   == url = None /\ url_offering = None /\ url_type = None
LinkIdle  == /\ html_content = <<>> /\ base_url = None
             /\ max_links = 0 /\ offering_links = <<>>
DedupIdle == keywords_dict = <<>> /\ deduplicated = <<>>
ExtractIdle == /\ page = <<>> /\ page_url = None /\ all_keywords = <<>>
               /\ first_call = <<>> /\ second_call = <<>>
               /\ interleaved = FALSE
ValidIdle == candidate = None /\ source_method = None /\ is_valid = None
MenuIdle  == /\ parser_soup = None /\ worker_pc = <<>> /\ worker_html = <<>>
             /\ worker_items = <<>> /\ worker_result = <<>>
TextIdle  == raw_text = None /\ normalized = None /\ sanitized = None
CrawlIdle == /\ crawl_status = <<>> /\ is_active = <<>> /\ row_lock = <<>>
             /\ crawl_jobs = <<>> /\ run_pc = <<>> /\ run_company = <<>>
             /\ run_job = <<>> /\ run_result = <<>> /\ should_stop = <<>>
             /\ processed = <<>>
ServiceIdle == /\ svc_pc = None /\ svc_links = <<>> /\ svc_idx = 0
               /\ svc_result = <<>> /\ svc_attempted = {}
               /\ svc_homepage = FALSE
MigrateIdle == /\ migration_files = {} /\ schema_migrations = {}
               /\ executed = <<>> /\ command = None
ToolIdle  == ServiceIdle /\ MigrateIdle
SystemIdle == MenuIdle /\ TextIdle /\ CrawlIdle /\ ToolIdle

(***************************************************************************)
(* str methods                                                             *)
(***************************************************************************)
UpperToLower ==
  [A |-> "a", B |-> "b", C |-> "c", D |-> "d", E |-> "e", F |-> "f", G |-> "g",
   H |-> "h", I |-> "i", J |-> "j", K |-> "k", L |-> "l", M |-> "m", N |-> "n",
   O |-> "o", P |-> "p", Q |-> "q", R |-> "r", S |-> "s", T |-> "t", U |-> "u",
   V |-> "v", W |-> "w", X |-> "x", Y |-> "y", Z |-> "z"]

UpperLetters == DOMAIN UpperToLower

LowerChar(c) == IF c \in UpperLetters THEN UpperToLower[c] ELSE c

RECURSIVE lower(_)
lower(s) ==
  IF s = "" THEN "" ELSE LowerChar(SubSeq(s, 1, 1)) \o lower(Tail(s))

\* p in s
Contains(p, s) ==
  \E i \in 1..(Len(s) - Len(p) + 1) : SubSeq(s, i, i + Len(p) - 1) = p

\* s.endswith(p)
endswith(s, p) ==
  Len(p) <= Len(s) /\ SubSeq(s, Len(s) - Len(p) + 1, Len(s)) = p

\* s.startswith(p)
startswith(s, p) == Len(p) <= Len(s) /\ SubSeq(s, 1, Len(p)) = p

\* index of the first occurrence of one of the characters cs in s, 0 if none
FirstOf(cs, s) ==
  LET hits == {i \in 1..Len(s) : SubSeq(s, i, i) \in cs}
  IN  IF hits = {} THEN 0 ELSE CHOOSE i \in hits : \A j \in hits : i <= j

\* s.split(c)[0]
SplitHead(s, c) ==
  LET i == FirstOf({c}, s) IN IF i = 0 THEN s ELSE SubSeq(s, 1, i - 1)

\* s.rstrip(c) for a single character c
RECURSIVE rstrip(_, _)
rstrip(s, c) ==
  IF s # "" /\ SubSeq(s, Len(s), Len(s)) = c
    THEN rstrip(SubSeq(s, 1, Len(s) - 1), c)
    ELSE s

Whitespace == {" ", "\t", "\n", "\r"}

\* s.strip()
RECURSIVE strip(_)
strip(s) ==
  IF s = "" THEN s
  ELSE IF SubSeq(s, 1, 1) \in Whitespace THEN strip(Tail(s))
  ELSE IF SubSeq(s, Len(s), Len(s)) \in Whitespace
    THEN strip(SubSeq(s, 1, Len(s) - 1))
  ELSE s

\* [p for p in s.split('/') if p]
RECURSIVE SplitNonEmpty(_, _)
SplitNonEmpty(s, c) ==
  IF s = "" THEN <<>>
  ELSE LET i == FirstOf({c}, s)
       IN  IF i = 0 THEN <<s>>
           ELSE (IF i = 1 THEN <<>> ELSE <<SubSeq(s, 1, i - 1)>>)
                  \o SplitNonEmpty(SubSeq(s, i + 1, Len(s)), c)

(***************************************************************************)
(* URLs.  A URL is scheme "://" netloc rest; scheme and netloc are kept    *)
(* whole, rest is the text that follows the netloc (path, "?" query,       *)
(* "#" fragment).                                                          *)
(***************************************************************************)
URL(scheme, netloc, rest) == [scheme |-> scheme, netloc |-> netloc, rest |-> rest]

\* urllib.parse.urlparse: the fragment starts at the first "#", the query at
\* the first "?" before it, the path is what precedes both.
urlparse(u) ==
  LET h  == FirstOf({"#"}, u.rest)
      nf == IF h = 0 THEN u.rest ELSE SubSeq(u.rest, 1, h - 1)
      q  == FirstOf({"?"}, nf)
  IN  [scheme   |-> u.scheme,
       netloc   |-> u.netloc,
       path     |-> IF q = 0 THEN nf ELSE SubSeq(nf, 1, q - 1),
       query    |-> IF q = 0 THEN "" ELSE SubSeq(nf, q + 1, Len(nf)),
       fragment |-> IF h = 0 THEN "" ELSE SubSeq(u.rest, h + 1, Len(u.rest))]

\* the path of base up to and including its last "/" ("/" when it has none)
BaseDir(path) ==
  LET slashes == {i \in 1..Len(path) : SubSeq(path, i, i) = "/"}
  IN  IF slashes = {} THEN "/"
      ELSE SubSeq(path, 1, CHOOSE i \in slashes : \A j \in slashes : j <= i)

\* urllib.parse.urljoin for references without "." and ".." segments.  A
\* relative reference has scheme "" and, unless it starts with "//", netloc "".
urljoin(base, ref) ==
  LET b == urlparse(base)
  IN  IF ref.scheme # "" THEN ref
      ELSE IF ref.netloc # "" THEN URL(base.scheme, ref.netloc, ref.rest)
      ELSE IF ref.rest = "" THEN base
      ELSE IF startswith(ref.rest, "/")
        THEN URL(base.scheme, base.netloc, ref.rest)
      ELSE IF startswith(ref.rest, "#")
        THEN URL(base.scheme, base.netloc, SplitHead(base.rest, "#") \o ref.rest)
      ELSE IF startswith(ref.rest, "?")
        THEN URL(base.scheme, base.netloc, b.path \o ref.rest)
      ELSE URL(base.scheme, base.netloc, BaseDir(b.path) \o ref.rest)

(***************************************************************************)
(* NavigationLinkFollower                                                  *)
(***************************************************************************)
OFFERING_PATTERNS ==
  <<
    "/services", "/service", "/solutions", "/solution", "/products",
    "/product", "/offerings", "/offering", "/capabilities", "/capability",
    "/expertise", "/what-we-do", "/our-work", "/practices", "/practice",
    "/areas", "/area", "/industries", "/industry", "/specialties",
    "/specialty", "/platforms", "/technologies", "/applications", "/tools",
    "/software", "/systems", "/integrations", "/apis", "/portfolio",
    "/projects", "/work", "/our-solutions", "/practice-areas", "/treatments",
    "/procedures", "/programs", "/courses", "/training", "/packages",
    "/plans", "/pricing", "/brands", "/collections", "/catalog",
    "/methodologies", "/frameworks", "/approaches", "services", "service",
    "solutions", "solution", "products", "product", "offerings", "offering",
    "capabilities", "capability", "practices", "practice", "specialties",
    "specialty", "platforms", "platform", "technologies", "technology",
    "applications", "application"
  >>

EXCLUDE_PATTERNS ==
  <<
    "/blog", "/news", "/about", "/contact", "/careers", "/jobs", "/privacy",
    "/terms", "/team", "/people", "/leadership", "/events", "/webinars",
    "/resources", "/downloads", "/case-studies", "/testimonials", "/reviews",
    "/clients", "/investors", "/press", "/media", "/faq", "/support", "pdf",
    "download", ".jpg", ".png", ".mp4", "/search"
  >>

\* the regular expressions of classify_offering_url, each without its
\* closing "$" (re.search with a pattern "text$" is an ends-with test)
listing_indicators ==
  <<
    "/services", "/services/", "/service", "/service/", "/solutions",
    "/solutions/", "/solution", "/solution/", "/products", "/products/",
    "/product", "/product/", "/offerings", "/offerings/", "/offering",
    "/offering/", "/what-we-do", "/what-we-do/", "/platforms", "/platforms/",
    "/technologies", "/technologies/", "/portfolio", "/portfolio/",
    "/practice-areas", "/practice-areas/", "/practices", "/practices/",
    "/practice", "/practice/"
  >>

Range(f) == {f[i] : i \in DOMAIN f}

\* variant: the inclusion vocabulary is consulted before the exclusions
is_offering_url_inclusion_first(u) ==
  LET path == lower(urlparse(u).path)
  IN  IF \E pattern \in Range(OFFERING_PATTERNS) : Contains(pattern, path)
        THEN TRUE
      ELSE FALSE

is_offering_url(u) ==
  LET path == lower(urlparse(u).path)
  IN  IF \E exclude \in Range(EXCLUDE_PATTERNS) : Contains(exclude, path)
        THEN FALSE
      ELSE IF \E pattern \in Range(OFFERING_PATTERNS) : Contains(pattern, path)
        THEN TRUE
      ELSE FALSE

\* variant: a detail page needs more than two path segments
classify_offering_url_three_parts(u) ==
  LET path  == lower(urlparse(u).path)
      parts == SplitNonEmpty(path, "/")
  IN  IF \E indicator \in Range(listing_indicators) : endswith(path, indicator)
        THEN "service_listing"
      ELSE IF \E pattern \in Range(OFFERING_PATTERNS) : Contains(pattern, path)
        THEN IF Len(parts) > 2 THEN "service_detail"
             ELSE IF Len(parts) = 1 THEN "service_listing"
             ELSE None
      ELSE None

classify_offering_url(u) ==
  LET path  == lower(urlparse(u).path)
      parts == SplitNonEmpty(path, "/")
  IN  IF \E indicator \in Range(listing_indicators) : endswith(path, indicator)
        THEN "service_listing"
      ELSE IF \E pattern \in Range(OFFERING_PATTERNS) : Contains(pattern, path)
        THEN IF Len(parts) >= 2 THEN "service_detail"
             ELSE IF Len(parts) = 1 THEN "service_listing"
             ELSE None
      ELSE None

(***************************************************************************)
(* find_service_links.  The document is the sequence of its elements that  *)
(* enclose anchors, in document order and not nested in one another; each  *)
(* records its tag, its class and id attributes and its anchors that carry *)
(* an href, each anchor with its href and its text.                        *)
(***************************************************************************)
SemanticTags == {"nav", "header", "main", "article"}

AreaClassWords ==
  <<"nav", "menu", "content", "main", "services", "products", "solutions">>

\* soup.find_all(['nav', 'header', 'main', 'article'])
IsSemanticArea(area) == area.tag \in SemanticTags

\* soup.find_all(class_=re.compile('nav|menu|content|main|...'))
IsClassArea(area) ==
  \E w \in Range(AreaClassWords) : Contains(w, area.class)

Indices(doc) == [i \in 1..Len(doc) |-> i]

\* lines 180-181: the areas matched by tag, then the areas matched by
\* class; an area matched both ways stands twice
nav_areas(doc) ==
  SelectSeq(Indices(doc), LAMBDA i : IsSemanticArea(doc[i]))
    \o SelectSeq(Indices(doc), LAMBDA i : IsClassArea(doc[i]))

\* lines 193-198: fragment and query removed, trailing slashes removed
\* unless the path is the root
CleanUrl(absolute_url) ==
  LET rest0 == SplitHead(SplitHead(absolute_url.rest, "#"), "?")
      c0    == URL(absolute_url.scheme, absolute_url.netloc, rest0)
  IN  IF endswith(rest0, "/") /\ Len(urlparse(c0).path) > 1
        THEN URL(c0.scheme, c0.netloc, rstrip(rest0, "/"))
        ELSE c0

\* variant: links to other hosts are kept
SameDomain_any(absolute_url, base) == TRUE

\* lines 189-190
SameDomain(absolute_url, base) ==
  urlparse(absolute_url).netloc = urlparse(base).netloc

\* variant: the seen set is never consulted
AlreadySeen_never(clean_url, seen_urls) == FALSE

\* lines 200-202
AlreadySeen(clean_url, seen_urls) == clean_url \in seen_urls

\* lines 215 and 218: the cap is tested after a link was appended, and
\* again after each area
CapReached(links, max) == Len(links) >= max

\* the inner loop of lines 184-216 from anchor k of one area on; found
\* holds offering_links and seen_urls
RECURSIVE LinkLoop(_, _, _, _, _)
LinkLoop(anchors, k, base, max, found) ==
  IF k > Len(anchors) THEN found
  ELSE
    LET link         == anchors[k]
        absolute_url == urljoin(base, link.href)
        clean_url    == CleanUrl(absolute_url)
    IN  IF ~SameDomain(absolute_url, base)
          THEN LinkLoop(anchors, k + 1, base, max, found)
        ELSE IF AlreadySeen(clean_url, found.seen_urls)
          THEN LinkLoop(anchors, k + 1, base, max, found)
        ELSE IF is_offering_url(clean_url)
                 /\ classify_offering_url(clean_url) # None
          THEN LET appended ==
                     [offering_links |->
                        Append(found.offering_links,
                               [url       |-> clean_url,
                                type      |-> classify_offering_url(clean_url),
                                link_text |-> link.text]),
                      seen_urls |-> found.seen_urls \cup {clean_url}]
               IN  IF CapReached(appended.offering_links, max) THEN appended
                   ELSE LinkLoop(anchors, k + 1, base, max, appended)
        ELSE LinkLoop(anchors, k + 1, base, max, found)

\* the outer loop of lines 183-219 from position a of nav_areas on
RECURSIVE AreaLoop(_, _, _, _, _, _)
AreaLoop(doc, areas, a, base, max, found) ==
  IF a > Len(areas) THEN found.offering_links
  ELSE
    LET after == LinkLoop(doc[areas[a]].links, 1, base, max, found)
    IN  IF CapReached(after.offering_links, max) THEN after.offering_links
        ELSE AreaLoop(doc, areas, a + 1, base, max, after)

find_service_links(doc, base, max) ==
  AreaLoop(doc, nav_areas(doc), 1, base, max,
           [offering_links |-> <<>>, seen_urls |-> {}])

(***************************************************************************)
(* Inputs of the URL classifier                                            *)
(***************************************************************************)
MaxSegments == 3

SegPool ==
  {"", "services", "Service", "cloud", "blog", "environmental-services",
   "workshop", "brochure.pdf", "capabilities"}

SuffixPool == {"", "?services", "#blog"}

RECURSIVE JoinPath(_)
JoinPath(segs) ==
  IF segs = <<>> THEN "" ELSE "/" \o Head(segs) \o JoinPath(Tail(segs))

\* the URLs with paths of at most max segments
UrlPool(max) ==
  {URL("https", "example.com", JoinPath(segs) \o s) :
     segs \in UNION {[1..n -> SegPool] : n \in 0..max}, s \in SuffixPool}

(***************************************************************************)
(* Specification SpecUrl: the URL classifier applied to one URL            *)
(***************************************************************************)
InitUrl ==
  /\ pc = "url"
  /\ url \in UrlPool(MaxSegments)
  /\ url_offering = None
  /\ url_type = None
  /\ LinkIdle /\ DedupIdle /\ ExtractIdle /\ ValidIdle
  /\ SystemIdle

ClassifyUrl ==
  /\ pc = "url"
  /\ url_offering' = is_offering_url(url)
  /\ url_type' = classify_offering_url(url)
  /\ pc' = "url_done"
  /\ UNCHANGED <<url, linkVars, dedupVars, extractVars,
               validVars, systemVars>>

NextUrl == ClassifyUrl

SpecUrl == InitUrl /\ [][NextUrl]_vars

UrlPath == lower(urlparse(url).path)

HasInclusion(path) == \E p \in Range(OFFERING_PATTERNS) : Contains(p, path)

HasExclusion(path) == \E e \in Range(EXCLUDE_PATTERNS) : Contains(e, path)

\* the whole path is an inclusion root, optionally followed by a single "/"
IsRootOnly(path) ==
  \E r \in Range(OFFERING_PATTERNS) \cup Range(listing_indicators) :
    path = r \/ path = r \o "/"

\* the path ends with a listing root, optionally followed by a single "/"
EndsWithListingRoot(path) ==
  \E r \in Range(listing_indicators) : endswith(path, r)

\* C6 (as claimed): an offering URL is typed listing only if its whole
\* lowercased path is one inclusion root with an optional trailing "/", or
\* the path has exactly one non-empty segment; and it is typed detail whenever
\* the path contains an inclusion substring and has two or more segments.
C6_ListingWholePath ==
  (pc = "url_done" /\ url_offering = TRUE) =>
    LET parts == SplitNonEmpty(UrlPath, "/")
    IN  /\ url_type = "service_listing" =>
              (IsRootOnly(UrlPath) \/ Len(parts) = 1)
        /\ (HasInclusion(UrlPath) /\ Len(parts) >= 2) =>
              url_type = "service_detail"

\* C6 (amended): an offering URL is typed listing only if its lowercased path
\* ends with a listing root with an optional trailing "/" (whatever precedes
\* it), or the path has exactly one non-empty segment; and it is typed detail
\* whenever the path contains an inclusion substring, has two or more
\* segments and does not end with such a listing root.
C6_ListingPathSuffix ==
  (pc = "url_done" /\ url_offering = TRUE) =>
    LET parts == SplitNonEmpty(UrlPath, "/")
    IN  /\ url_type = "service_listing" =>
              (EndsWithListingRoot(UrlPath) \/ Len(parts) = 1)
        /\ (HasInclusion(UrlPath) /\ Len(parts) >= 2
              /\ ~EndsWithListingRoot(UrlPath)) =>
              url_type = "service_detail"

\* an offering URL of several segments typed listing by its last segment
C6_Witness ==
  /\ pc = "url_done" /\ url_offering = TRUE
  /\ url_type = "service_listing"
  /\ Len(SplitNonEmpty(UrlPath, "/")) >= 2
  /\ ~IsRootOnly(UrlPath)

\* C7: is_offering_url is true exactly when the lowercased path contains a
\* string of the inclusion vocabulary and none of the exclusion vocabulary.
C7_OfferingIffIncludedNotExcluded ==
  (pc = "url_done") =>
    (url_offering = TRUE <=> (HasInclusion(UrlPath) /\ ~HasExclusion(UrlPath)))

\* a path with both an inclusion and an exclusion string was refused
C7_Witness ==
  /\ pc = "url_done"
  /\ HasInclusion(UrlPath) /\ HasExclusion(UrlPath)
  /\ url_offering = FALSE

(***************************************************************************)
(* Specification SpecLinks: find_service_links applied to one homepage     *)
(***************************************************************************)
MaxAnchors == 2

Area(tag, class) == [tag |-> tag, class |-> class, id |-> ""]

AreaWithId(tag, id) == [tag |-> tag, class |-> "", id |-> id]

\* the areas of a homepage in document order: none; a nav; a class-matched
\* div before a nav; a nav and a div no rule matches; a header that its
\* class matches too, before a class-matched div; a div whose class holds a
\* keyword in upper case; a div whose id holds a keyword
LayoutPool ==
  {<<>>,
   <<Area("nav", "")>>,
   <<Area("div", "top-menu"), Area("nav", "")>>,
   <<Area("nav", ""), Area("div", "")>>,
   <<Area("header", "main-nav"), Area("div", "top-menu")>>,
   <<Area("div", "Main-Menu")>>,
   <<AreaWithId("div", "menu")>>}

Ref(rest) == URL("", "", rest)

HrefPool ==
  {Ref("/services"),
   Ref("/services/?ref=nav#top"),
   Ref("/services/cloud"),
   Ref("solutions"),
   Ref("/about/services"),
   URL("https", "other.com", "/services")}

BasePool ==
  {URL("https", "example.com", ""), URL("https", "example.com", "/en/")}

MaxLinksPool == {0, 1, 2, 20}

\* the areas of a layout filled with at most budget anchors together
RECURSIVE Fill(_, _)
Fill(layout, budget) ==
  IF layout = <<>> THEN {<<>>}
  ELSE UNION {
         {<<[tag   |-> Head(layout).tag,
             class |-> Head(layout).class,
             id    |-> Head(layout).id,
             links |-> h]>> \o rest :
            h \in [1..m -> HrefPool],
            rest \in Fill(Tail(layout), budget - m)}
         : m \in 0..budget}

\* the number of anchors that precede area a in the document
RECURSIVE Offset(_, _)
Offset(doc, a) ==
  IF a = 1 THEN 0 ELSE Offset(doc, a - 1) + Len(doc[a - 1].links)

\* each anchor's text tells its position in the document
Numbered(doc) ==
  [a \in DOMAIN doc |->
     [tag |-> doc[a].tag, class |-> doc[a].class, id |-> doc[a].id,
      links |-> [k \in DOMAIN doc[a].links |->
                   [href |-> doc[a].links[k],
                    text |-> "link " \o ToString(Offset(doc, a) + k)]]]]

\* the documents of at most max anchors
DocPool(max) ==
  {Numbered(doc) : doc \in UNION {Fill(layout, max) : layout \in LayoutPool}}

InitLinks ==
  /\ pc = "links"
  /\ html_content \in DocPool(MaxAnchors)
  /\ base_url \in BasePool
  /\ max_links \in MaxLinksPool
  /\ offering_links = <<>>
  /\ UrlIdle /\ DedupIdle /\ ExtractIdle /\ ValidIdle
  /\ SystemIdle

FindServiceLinks ==
  /\ pc = "links"
  /\ offering_links' = find_service_links(html_content, base_url, max_links)
  /\ pc' = "links_done"
  /\ UNCHANGED <<html_content, base_url, max_links, urlVars, dedupVars,
               extractVars,
               validVars, systemVars>>

NextLinks == FindServiceLinks

SpecLinks == InitLinks /\ [][NextLinks]_vars

\* the anchors of the areas listed, one area after the other
RECURSIVE AnchorsOf(_, _)
AnchorsOf(doc, areas) ==
  IF areas = <<>> THEN <<>>
  ELSE doc[Head(areas)].links \o AnchorsOf(doc, Tail(areas))

\* the anchors of the document, and the anchors as the loops visit them
Anchors == AnchorsOf(html_content, Indices(html_content))
Scan == AnchorsOf(html_content, nav_areas(html_content))

\* the absolute and the normalized URL of an anchor
AnchorAbs(link) == urljoin(base_url, link.href)
AnchorClean(link) == CleanUrl(AnchorAbs(link))

\* no fragment, no query string, no trailing slash unless the path is root
IsNormalized(u) ==
  /\ ~Contains("#", u.rest)
  /\ ~Contains("?", u.rest)
  /\ (endswith(u.rest, "/") => u.rest = "/")

\* C8: the returned list holds at most max_links links.
C8_AtMostMaxLinks ==
  (pc = "links_done") => Len(offering_links) <= max_links

\* C9: no two returned links have the same normalized URL, every returned
\* url is in normalized form, and an entry carries the link_text of the first
\* anchor in scan order that normalizes to its URL.
C9_DedupFirstWins ==
  (pc = "links_done") =>
    /\ \A m, n \in 1..Len(offering_links) :
         m # n => offering_links[m].url # offering_links[n].url
    /\ \A n \in 1..Len(offering_links) :
         /\ IsNormalized(offering_links[n].url)
         /\ CleanUrl(offering_links[n].url) = offering_links[n].url
         /\ LET same  == {k \in 1..Len(Scan) :
                            AnchorClean(Scan[k]) = offering_links[n].url}
                first == CHOOSE k \in same : \A j \in same : k <= j
            IN  /\ same # {}
                /\ offering_links[n].link_text = Scan[first].text

\* two scanned anchors with different hrefs and texts normalize to one URL,
\* returned once with the text of the earlier one although the cap was not
\* reached
C9_Witness ==
  /\ pc = "links_done"
  /\ Len(offering_links) < max_links
  /\ \E j, k \in 1..Len(Scan) :
       /\ j < k
       /\ Scan[j].href # Scan[k].href
       /\ Scan[j].text # Scan[k].text
       /\ AnchorClean(Scan[j]) = AnchorClean(Scan[k])
       /\ \E n \in 1..Len(offering_links) :
            /\ offering_links[n].url = AnchorClean(Scan[j])
            /\ offering_links[n].link_text = Scan[j].text

\* C10: every returned link has the netloc of the base URL, and no returned
\* entry comes from an anchor whose href resolves to another host.
C10_SameHostOnly ==
  (pc = "links_done") =>
    /\ \A n \in 1..Len(offering_links) :
         urlparse(offering_links[n].url).netloc = urlparse(base_url).netloc
    /\ \A i \in 1..Len(Anchors) :
         urlparse(AnchorAbs(Anchors[i])).netloc # urlparse(base_url).netloc =>
           \A n \in 1..Len(offering_links) :
             offering_links[n].link_text # Anchors[i].text

\* a scanned anchor with an offering path on another host was left out
\* although the cap was not reached, next to a returned same-host link
C10_Witness ==
  /\ pc = "links_done"
  /\ offering_links # <<>>
  /\ Len(offering_links) < max_links
  /\ \E k \in 1..Len(Scan) :
       /\ urlparse(AnchorAbs(Scan[k])).netloc # urlparse(base_url).netloc
       /\ is_offering_url(AnchorClean(Scan[k]))
       /\ \A n \in 1..Len(offering_links) :
            offering_links[n].link_text # Scan[k].text

\* the document position of the anchor a returned link carries the text of
PositionOf(link_text) ==
  CHOOSE i \in 1..Len(Anchors) : Anchors[i].text = link_text

\* the anchor lies in an area the loops visit
IsScanned(link) == \E k \in 1..Len(Scan) : Scan[k] = link

\* the anchor resolves to a same-host URL both URL tests accept
IsAccepted(link) ==
  /\ urlparse(AnchorAbs(link)).netloc = urlparse(base_url).netloc
  /\ is_offering_url(AnchorClean(link))
  /\ classify_offering_url(AnchorClean(link)) # None

\* C11: the returned links stand in the document order of their anchors, and
\* every accepted anchor of a scanned area that precedes a returned link's
\* anchor in the document has its URL in the list.
C11_DocumentOrder ==
  (pc = "links_done") =>
    /\ \A m, n \in 1..Len(offering_links) :
         m < n => PositionOf(offering_links[m].link_text)
                    < PositionOf(offering_links[n].link_text)
    /\ \A n \in 1..Len(offering_links), i \in 1..Len(Anchors) :
         (/\ i < PositionOf(offering_links[n].link_text)
          /\ IsScanned(Anchors[i])
          /\ IsAccepted(Anchors[i])) =>
           \E m \in 1..Len(offering_links) :
             offering_links[m].url = AnchorClean(Anchors[i])

\* the anchor lies in a nav, header, main or article element or in an
\* element whose class or id attribute holds a keyword, ignoring case
InClaimedRegion(area) ==
  \/ area.tag \in SemanticTags
  \/ \E w \in Range(AreaClassWords) :
       Contains(w, lower(area.class)) \/ Contains(w, lower(area.id))

\* C12: every anchor of such a region whose href resolves to a same-host
\* offering URL has its URL in the returned list, unless the cap was reached.
C12_RegionsByClassOrId ==
  (pc = "links_done" /\ Len(offering_links) < max_links) =>
    \A a \in DOMAIN html_content :
      InClaimedRegion(html_content[a]) =>
        \A k \in DOMAIN html_content[a].links :
          IsAccepted(html_content[a].links[k]) =>
            \E n \in 1..Len(offering_links) :
              offering_links[n].url = AnchorClean(html_content[a].links[k])

(***************************************************************************)
(* ServicePageExtractor.deduplicate_keywords.  A dict is the sequence of   *)
(* its items in insertion order, each item a record with a distinct key.   *)
(***************************************************************************)
Keys(dict) == {dict[i].key : i \in DOMAIN dict}

\* variant: the raw keys are compared
IsExactDuplicate_raw(key1, key2) == key1 = key2

\* line 873
IsExactDuplicate(key1, key2) == strip(lower(key1)) = strip(lower(key2))

\* line 883
IsPluralPair(key1, key2) ==
  LET key1_lower == strip(lower(key1))
      key2_lower == strip(lower(key2))
  IN  \/ key1_lower = rstrip(key2_lower, "s")
      \/ key2_lower = rstrip(key1_lower, "s")

\* variant: containment is not tested
IsSubsetPair_never(key1, key2) == FALSE

\* line 892
IsSubsetPair(key1, key2) ==
  LET key1_lower == strip(lower(key1))
      key2_lower == strip(lower(key2))
  IN  Contains(key1_lower, key2_lower) \/ Contains(key2_lower, key1_lower)

\* the inner loop of lines 866-899 for items[i], from position j on; the
\* result is to_remove when the loop is left
RECURSIVE InnerLoop(_, _, _, _)
InnerLoop(items, i, j, to_remove) ==
  IF j > Len(items) THEN to_remove
  ELSE
    LET key1       == items[i].key
        key2       == items[j].key
        key1_lower == strip(lower(key1))
        key2_lower == strip(lower(key2))
    IN  IF key2 \in to_remove
          THEN InnerLoop(items, i, j + 1, to_remove)
        ELSE IF IsExactDuplicate(key1, key2)
          THEN IF items[j].confidence > items[i].confidence
                 THEN to_remove \cup {key1}
                 ELSE InnerLoop(items, i, j + 1, to_remove \cup {key2})
        ELSE IF IsPluralPair(key1, key2)
          THEN IF endswith(key1_lower, "s") /\ ~endswith(key2_lower, "s")
                 THEN to_remove \cup {key1}
               ELSE IF endswith(key2_lower, "s") /\ ~endswith(key1_lower, "s")
                 THEN InnerLoop(items, i, j + 1, to_remove \cup {key2})
               ELSE InnerLoop(items, i, j + 1, to_remove)
        ELSE IF IsSubsetPair(key1, key2)
          THEN IF Len(key1) < Len(key2)
                 THEN to_remove \cup {key1}
                 ELSE InnerLoop(items, i, j + 1, to_remove \cup {key2})
        ELSE InnerLoop(items, i, j + 1, to_remove)

\* the outer loop of lines 860-899 from position i on
RECURSIVE OuterLoop(_, _, _)
OuterLoop(items, i, to_remove) ==
  IF i > Len(items) THEN to_remove
  ELSE IF items[i].key \in to_remove
    THEN OuterLoop(items, i + 1, to_remove)
  ELSE OuterLoop(items, i + 1, InnerLoop(items, i, i + 1, to_remove))

deduplicate_keywords(dict) ==
  IF dict = <<>> THEN dict
  ELSE LET to_remove == OuterLoop(dict, 1, {})
       IN  SelectSeq(dict, LAMBDA item : item.key \notin to_remove)

(***************************************************************************)
(* Specification SpecDedup: deduplicate_keywords applied to one mapping    *)
(***************************************************************************)
MaxKeys == 3

\* texts is_valid_offering_keyword accepts; "api  " as a JSON-LD name gives it
KeyPool == {"api", "API", "apis", "APIs", "api  ", "apiss", "rapid", "tool"}

DedupConfidencePool == {75, 85}

\* the mappings of at most max keys
DictPool(max) ==
  UNION {
    {[i \in 1..n |-> [key        |-> k[i],
                      confidence |-> c[i],
                      method     |-> "h1",
                      url        |-> "https://example.com/services/api"]] :
       k \in {f \in [1..n -> KeyPool] :
                \A i, j \in 1..n : i # j => f[i] # f[j]},
       c \in [1..n -> DedupConfidencePool]}
    : n \in 0..max}

InitDedup ==
  /\ pc = "dedup"
  /\ keywords_dict \in DictPool(MaxKeys)
  /\ deduplicated = <<>>
  /\ UrlIdle /\ LinkIdle /\ ExtractIdle /\ ValidIdle
  /\ SystemIdle

Deduplicate ==
  /\ pc = "dedup"
  /\ deduplicated' = deduplicate_keywords(keywords_dict)
  /\ pc' = "dedup_done"
  /\ UNCHANGED <<keywords_dict, urlVars, linkVars, extractVars,
               validVars, systemVars>>

NextDedup == Deduplicate

SpecDedup == InitDedup /\ [][NextDedup]_vars

\* the two keys are equal ignoring case
EqualIgnoringCase(a, b) == lower(a) = lower(b)

\* b is the plural of a: a plus a trailing "s", ignoring case
PluralOf(b, a) == lower(b) = lower(a) \o "s"

\* a is a substring of b, ignoring case
SubstringOf(a, b) == Contains(lower(a), lower(b))

\* C1: the result holds no two keys equal ignoring case, no key that is the
\* plural of another key of the result, and no key that is a substring
\* (ignoring case) of another key of the result.
C1_NoNearDuplicatesSurvive ==
  (pc = "dedup_done") =>
    \A a, b \in Keys(deduplicated) :
      a # b => /\ ~EqualIgnoringCase(a, b)
               /\ ~PluralOf(b, a)
               /\ ~SubstringOf(a, b)

\* a mapping of three keys, one the plural of another and one containing
\* another without being its plural, was reduced to a single key
C1_Witness ==
  /\ pc = "dedup_done"
  /\ Len(keywords_dict) = 3
  /\ \E a, b \in Keys(keywords_dict) : PluralOf(b, a)
  /\ \E a, b \in Keys(keywords_dict) :
       a # b /\ SubstringOf(a, b) /\ ~PluralOf(b, a) /\ ~EqualIgnoringCase(a, b)
  /\ Len(deduplicated) = 1

\* the texts of two keys collide as the claim has it: equal ignoring case,
\* singular and plural, or one a substring of the other
Collide(a, b) ==
  \/ EqualIgnoringCase(a, b)
  \/ PluralOf(a, b) \/ PluralOf(b, a)
  \/ SubstringOf(a, b) \/ SubstringOf(b, a)

\* the same, surrounding whitespace ignored as well
CollideStripped(a, b) ==
  \/ Contains(strip(lower(a)), strip(lower(b)))
  \/ Contains(strip(lower(b)), strip(lower(a)))

\* C2 (as claimed): of any two colliding keys of the argument exactly one is
\* in the result.
C2_ExactlyOneSurvives ==
  (pc = "dedup_done") =>
    \A a, b \in Keys(keywords_dict) :
      (a # b /\ Collide(a, b)) =>
        ((a \in Keys(deduplicated)) # (b \in Keys(deduplicated)))

\* C2 (amended): of any two keys of the argument that collide (ignoring case
\* and surrounding whitespace) never both are in the result, and exactly one
\* is when no other key of the argument collides with either of them.
C2_AtMostOneSurvives ==
  (pc = "dedup_done") =>
    \A a, b \in Keys(keywords_dict) :
      (a # b /\ CollideStripped(a, b)) =>
        /\ ~(a \in Keys(deduplicated) /\ b \in Keys(deduplicated))
        /\ (\A c \in Keys(keywords_dict) \ {a, b} :
              ~CollideStripped(c, a) /\ ~CollideStripped(c, b)) =>
             (a \in Keys(deduplicated) \/ b \in Keys(deduplicated))

\* a colliding pair next to an unrelated key: one of the pair survived; and
\* a colliding pair that a third colliding key removed altogether
C2_Witness ==
  /\ pc = "dedup_done"
  /\ \E a, b, c \in Keys(keywords_dict) :
       /\ a # b /\ c \notin {a, b}
       /\ CollideStripped(a, b)
       /\ ~CollideStripped(c, a) /\ ~CollideStripped(c, b)
       /\ (a \in Keys(deduplicated)) # (b \in Keys(deduplicated))

\* C18: of two keys of the argument that form a singular/plural pair (one
\* is the other plus one trailing "s", ignoring case) the result drops the
\* plural and keeps the singular, whatever the confidences and the order.
C18_PluralDroppedSingularKept ==
  (pc = "dedup_done") =>
    \A a, b \in Keys(keywords_dict) :
      PluralOf(b, a) =>
        /\ b \notin Keys(deduplicated)
        /\ a \in Keys(deduplicated)

(***************************************************************************)
(* ServicePageExtractor.is_valid_offering_keyword.  TLA+ strings are       *)
(* ASCII: the character "@" stands for a trademark glyph (U+2122, U+00AE,  *)
(* U+00A9), which like it is neither alphabetic nor cased.                 *)
(***************************************************************************)
GENERIC_TERMS ==
  {"home", "back", "next", "previous", "menu", "login", "logout",
   "sign in", "sign up", "register", "subscribe", "learn more",
   "read more", "click here", "get started", "contact us", "view all",
   "see all", "show more", "download", "loading", "search", "page", "tab",
   "button", "link", "close", "open", "submit", "careers", "our story",
   "our team", "our news", "our services", "about us", "about", "contact",
   "news", "blog", "events", "community", "media", "gallery", "resources",
   "let's work together", "get in touch", "request a quote", "etc",
   "etc.", "services", "solutions", "offerings", "products", "platforms",
   "capabilities", "sectors", "industries", "markets", "energy", "mining",
   "industrial", "forestry", "agriculture", "transportation",
   "manufacturing", "retail", "healthcare", "education", "finance",
   "technology", "construction", "soil", "water", "air", "sediment",
   "rock"}

DESCRIPTION_INDICATORS ==
  <<"through", "including", "such as", "for example", "conducted to",
   "we provide", "we offer", "designed to", "intended for", "allows for",
   "enables", "helps to", "used for">>

OFFERING_INDICATORS ==
  {"consulting", "advisory", "support", "maintenance", "implementation",
   "integration", "deployment", "installation", "configuration",
   "customization", "training", "coaching", "mentoring", "staffing",
   "recruiting", "development", "engineering", "design", "architecture",
   "programming", "coding", "testing", "qa", "quality assurance",
   "devops", "assessment", "analysis", "evaluation", "audit", "review",
   "inspection", "monitoring", "reporting", "analytics", "management",
   "optimization", "improvement", "enhancement", "strategy", "planning",
   "governance", "compliance", "regulatory", "platform", "software",
   "application", "system", "tool", "solution", "framework",
   "infrastructure", "cloud", "saas", "api", "automation", "ai", "ml",
   "product", "device", "equipment", "hardware", "machinery",
   "instrument", "appliance", "component", "part", "module", "treatment",
   "therapy", "procedure", "diagnosis", "care", "surgery",
   "rehabilitation", "prevention", "screening", "litigation",
   "counseling", "representation", "filing", "investment", "portfolio",
   "fund", "course", "program", "certification", "degree", "curriculum",
   "workshop", "seminar", "class", "lesson", "tutorial", "methodology",
   "approach", "process", "practice", "technique", "method", "model",
   "standard", "protocol", "expertise", "capability", "competency",
   "specialization", "specialty", "proficiency", "skill", "experience"}

\* lines 491-494
VersionMarkers ==
  <<"version", "v.", "v1", "v2", "edition", "pro", "premium", "enterprise",
    "basic", "standard", "advanced", "suite", "plus">>

TrademarkGlyphs == {"@"}

LowerLetters == {UpperToLower[c] : c \in UpperLetters}

Digits == {"0", "1", "2", "3", "4", "5", "6", "7", "8", "9"}

Char(s, i) == SubSeq(s, i, i)

\* c.isalpha()
IsAlphaChar(c) == c \in UpperLetters \/ c \in LowerLetters

\* a character the regular expression \w matches
IsWordChar(c) == IsAlphaChar(c) \/ c \in Digits \/ c = "_"

\* s.isalpha()
isalpha(s) == s # "" /\ \A i \in 1..Len(s) : IsAlphaChar(Char(s, i))

\* s.isupper(): a cased character, and no lower-case one
isupper(s) ==
  /\ \E i \in 1..Len(s) : Char(s, i) \in UpperLetters
  /\ \A i \in 1..Len(s) : Char(s, i) \notin LowerLetters

\* s.split(): the maximal runs of characters that are not whitespace
RECURSIVE split(_)
split(s) ==
  IF s = "" THEN <<>>
  ELSE LET i == FirstOf(Whitespace, s)
       IN  IF i = 0 THEN <<s>>
           ELSE (IF i = 1 THEN <<>> ELSE <<SubSeq(s, 1, i - 1)>>)
                  \o split(SubSeq(s, i + 1, Len(s)))

\* r'^.*:$': "." matches no newline, "$" also matches before a final newline
EndsWithColon(text) ==
  LET t == IF endswith(text, "\n") THEN SubSeq(text, 1, Len(text) - 1)
           ELSE text
  IN  endswith(t, ":") /\ ~Contains("\n", t)

\* a word boundary \b lies before position i of s
BoundaryBefore(s, i) ==
  (i <= Len(s) /\ IsWordChar(Char(s, i)))
    # (i > 1 /\ IsWordChar(Char(s, i - 1)))

\* r'\bact\b.*\bregulation', ignoring case
ActRegulation(text) ==
  LET s == lower(text)
  IN  \E i, j \in 1..Len(s) :
        /\ i + 2 <= Len(s) /\ j + 9 <= Len(s)
        /\ SubSeq(s, i, i + 2) = "act"
        /\ BoundaryBefore(s, i) /\ BoundaryBefore(s, i + 3)
        /\ j >= i + 3
        /\ SubSeq(s, j, j + 9) = "regulation"
        /\ BoundaryBefore(s, j)
        /\ ~Contains("\n", SubSeq(s, i + 3, j - 1))

\* the text without its leading whitespace: r'^\s*'
RECURSIVE lstrip(_)
lstrip(s) ==
  IF s # "" /\ Char(s, 1) \in Whitespace THEN lstrip(Tail(s)) ELSE s

\* r'^\s*and\s+', r'^\s*or\s+', ignoring case
StartsWithWord(text, word) ==
  LET s == lower(lstrip(text))
  IN  /\ startswith(s, word)
      /\ Len(s) > Len(word)
      /\ Char(s, Len(word) + 1) \in Whitespace

\* r'^\s*\d+\.\s*$'
IsNumberEnumerator(text) ==
  LET s == strip(text)
  IN  /\ Len(s) >= 2
      /\ Char(s, Len(s)) = "."
      /\ \A i \in 1..(Len(s) - 1) : Char(s, i) \in Digits

\* r'^\s*[a-z]\)\s*$', ignoring case
IsLetterEnumerator(text) ==
  LET s == strip(text)
  IN  Len(s) = 2 /\ IsAlphaChar(Char(s, 1)) /\ Char(s, 2) = ")"

\* r'^Our\s+', ignoring case
StartsWithOur(text) ==
  LET s == lower(text)
  IN  startswith(s, "our") /\ Len(s) > 3 /\ Char(s, 4) \in Whitespace

\* r'\.$'
EndsWithPeriod(text) == endswith(text, ".") \/ endswith(text, ".\n")

\* lines 445-448: re.search of one of the EXCLUDE_PATTERNS succeeds
MatchesExcludePattern(text) ==
  \/ EndsWithColon(text)
  \/ ActRegulation(text)
  \/ StartsWithWord(text, "and")
  \/ StartsWithWord(text, "or")
  \/ IsNumberEnumerator(text)
  \/ IsLetterEnumerator(text)
  \/ StartsWithOur(text)
  \/ EndsWithPeriod(text)

\* line 456
has_description_indicator(text_lower) ==
  \E ind \in Range(DESCRIPTION_INDICATORS) : Contains(ind, text_lower)

\* lines 471 and 480
has_indicator(text_lower) ==
  \E term \in OFFERING_INDICATORS : Contains(term, text_lower)

\* line 472
is_compound(text) == Contains("-", text) \/ Len(text) > 10

\* variant: no source is trusted
IsOfferingCard_never(extraction_method) == FALSE

\* line 465
IsOfferingCard(extraction_method) == extraction_method = "offering_card"

\* variant: any first word passes
is_proper_phrase_any(words) == TRUE

\* line 488
is_proper_phrase(words) == Char(words[1], 1) \in UpperLetters

\* lines 491-494
has_version(text_lower) ==
  \E marker \in Range(VersionMarkers) : Contains(marker, text_lower)

\* line 497
has_trademark(text) == \E glyph \in TrademarkGlyphs : Contains(glyph, text)

\* line 505
is_acronym(text) ==
  isupper(text) /\ 2 <= Len(text) /\ Len(text) <= 4 /\ isalpha(text)

\* lines 420-459: one of the exclusion rules rejects the argument
IsRejected(raw) ==
  LET text       == strip(raw)
      words      == split(text)
      word_count == Len(words)
      text_lower == lower(text)
  IN  \/ raw = "" \/ Len(raw) < 3 \/ Len(raw) > 80
      \/ word_count > 15
      \/ text_lower \in GENERIC_TERMS
      \/ MatchesExcludePattern(text)
      \/ ~\E i \in 1..Len(text) : IsAlphaChar(Char(text, i))
      \/ (has_description_indicator(text_lower) /\ word_count > 6)

is_valid_offering_keyword(raw, extraction_method) ==
  LET text       == strip(raw)
      words      == split(text)
      word_count == Len(words)
      text_lower == lower(text)
  IN  IF IsRejected(raw) THEN FALSE
      ELSE IF word_count = 1 /\ IsOfferingCard(extraction_method) THEN TRUE
      ELSE IF word_count = 1
                /\ ~(has_indicator(text_lower) \/ is_compound(text))
        THEN FALSE
      ELSE IF has_indicator(text_lower) /\ word_count >= 2 THEN TRUE
      ELSE IF word_count >= 2 /\ is_proper_phrase(words)
                /\ (has_version(text_lower) \/ has_trademark(text)
                      \/ word_count <= 6)
        THEN TRUE
      ELSE IF word_count = 1 /\ is_acronym(text) THEN TRUE
      ELSE IF word_count = 1 /\ has_indicator(text_lower) THEN TRUE
      ELSE FALSE

(***************************************************************************)
(* Specification SpecValid: is_valid_offering_keyword applied to one text  *)
(***************************************************************************)
MaxWords == 2

WordPool ==
  {"Cloud", "updates", "Acme", "widgets", "CRM", "API", "Bioremediation",
   "x-ray", "services", "and", "Our", "12"}

EndingPool == {"", ":", ".", ")"}

\* the words joined by single spaces
RECURSIVE JoinWords(_)
JoinWords(ws) ==
  IF ws = <<>> THEN ""
  ELSE IF Len(ws) = 1 THEN ws[1]
  ELSE ws[1] \o " " \o JoinWords(Tail(ws))

\* texts whose length, word count or line structure matter
LongTexts ==
  {"", "ab", " a)", "12. ", "Cloud\nServices:", "Cloud\nServices",
   "Acme Big Red Old New Hot Widgets",
   "Acme Big Red Old New Hot Widgets Plus",
   "Acme@ Big Red Old New Hot Widgets",
   "We offer Acme and big red widgets",
   "We offer cloud and big red widgets",
   "We offer cloud widgets",
   "The Clean Air Act Regulation",
   "Cloud a b c d e f g h i j k l m n",
   "Cloud a b c d e f g h i j k l m n o",
   "Cloud xxxxxxxxxxxxxxxxxxxxxxxxxxxxxxxxxxxxxxxxxxxxxxxxxxxxxxxxxxxxxxxxxxxxxxxxxx",
   "Cloud xxxxxxxxxxxxxxxxxxxxxxxxxxxxxxxxxxxxxxxxxxxxxxxxxxxxxxxxxxxxxxxxxxxxxxxxxxx"}

\* the texts of at most max words of the pool, and the long texts
TextPool(max) ==
  LongTexts \cup
    UNION {{JoinWords(ws) \o e : ws \in [1..n -> WordPool], e \in EndingPool}
             : n \in 1..max}

MethodPool == {None, "h1", "offering_card"}

InitValid ==
  /\ pc = "valid"
  /\ candidate \in TextPool(MaxWords)
  /\ source_method \in MethodPool
  /\ is_valid = None
  /\ UrlIdle /\ LinkIdle /\ DedupIdle /\ ExtractIdle
  /\ SystemIdle

IsValidOfferingKeyword ==
  /\ pc = "valid"
  /\ is_valid' = is_valid_offering_keyword(candidate, source_method)
  /\ pc' = "valid_done"
  /\ UNCHANGED <<candidate, source_method, urlVars, linkVars, dedupVars,
                 extractVars, systemVars>>

NextValid == IsValidOfferingKeyword

SpecValid == InitValid /\ [][NextValid]_vars

\* the number of words of the argument
WordCount == Len(split(candidate))

\* the argument is a bare enumerator: digits and a period, or a letter and
\* a closing parenthesis
IsBareEnumerator(s) ==
  \/ /\ Len(s) >= 2 /\ Char(s, Len(s)) = "."
     /\ \A i \in 1..(Len(s) - 1) : Char(s, i) \in Digits
  \/ Len(s) = 2 /\ IsAlphaChar(Char(s, 1)) /\ Char(s, 2) = ")"

\* the argument meets one of the rejection conditions as the claim lists them
ClaimedRejection ==
  \/ candidate = "" \/ Len(candidate) < 3 \/ Len(candidate) > 80
  \/ WordCount > 15
  \/ lower(candidate) \in GENERIC_TERMS
  \/ endswith(candidate, ":") \/ endswith(candidate, ".")
  \/ startswith(candidate, "and ") \/ startswith(candidate, "or ")
  \/ startswith(candidate, "Our ")
  \/ IsBareEnumerator(candidate)
  \/ ~\E i \in 1..Len(candidate) : IsAlphaChar(Char(candidate, i))
  \/ /\ \E ind \in Range(DESCRIPTION_INDICATORS) :
          Contains(ind, lower(candidate))
     /\ WordCount > 6

\* C13: a text that meets one of the listed rejection conditions is refused,
\* whatever the extraction method.
C13_RejectionRules ==
  (pc = "valid_done" /\ ClaimedRejection) => is_valid = FALSE

\* the argument is one word that no rule rejects
IsPlainSingleWord == WordCount = 1 /\ ~IsRejected(candidate)

\* the argument holds an offering-indicator substring
HoldsIndicator ==
  \E term \in OFFERING_INDICATORS : Contains(term, lower(candidate))

\* the argument has the compound shape
IsCompoundShape == Contains("-", strip(candidate)) \/ Len(strip(candidate)) > 10

\* C14: one word that no rule rejects, without indicator, without hyphen and
\* of at most 10 characters, is accepted from an offering card and refused
\* from every other source.
C14_SingleWordBySource ==
  (pc = "valid_done" /\ IsPlainSingleWord /\ ~HoldsIndicator
     /\ ~IsCompoundShape) =>
    (is_valid = (source_method = "offering_card"))

\* a short word without indicator was refused from a heading
C14_Witness ==
  /\ pc = "valid_done"
  /\ IsPlainSingleWord /\ ~HoldsIndicator /\ ~IsCompoundShape
  /\ source_method = "h1"
  /\ is_valid = FALSE

\* C15: one word of compound shape that no rule rejects, from a source other
\* than an offering card, is accepted, with or without an indicator.
C15_CompoundAccepted ==
  (pc = "valid_done" /\ IsPlainSingleWord /\ IsCompoundShape
     /\ source_method # "offering_card") =>
    is_valid = TRUE

\* the argument is a bare all-uppercase alphabetic token of 2 to 4 characters
IsBareAcronym ==
  /\ Len(candidate) >= 2 /\ Len(candidate) <= 4
  /\ \A i \in 1..Len(candidate) : Char(candidate, i) \in UpperLetters

\* C16: a bare acronym that no rule rejects is accepted, whatever the
\* extraction method and with or without an indicator.
C16_AcronymAccepted ==
  (pc = "valid_done" /\ IsBareAcronym /\ ~IsRejected(candidate)) =>
    is_valid = TRUE

\* the first word of the argument starts with an upper-case letter
FirstWordCapitalized == Char(strip(candidate), 1) \in UpperLetters

\* the argument holds a version or edition marker, or a trademark glyph
HoldsVersionMarker ==
  \E marker \in Range(VersionMarkers) : Contains(marker, lower(candidate))

HoldsTrademark == Contains("@", candidate)

\* C17: a text of two or more words that no rule rejects is accepted exactly
\* when it holds an indicator, or its first word is capitalized and it has
\* at most 6 words or a version marker or a trademark glyph.
C17_MultiWordAcceptance ==
  (pc = "valid_done" /\ WordCount >= 2 /\ ~IsRejected(candidate)) =>
    (is_valid = (\/ HoldsIndicator
                 \/ /\ FirstWordCapitalized
                    /\ (WordCount <= 6 \/ HoldsVersionMarker
                          \/ HoldsTrademark)))

\* a capitalized text of more than 6 words without indicator was accepted
\* for its version marker
C17_Witness ==
  /\ pc = "valid_done"
  /\ WordCount > 6 /\ ~IsRejected(candidate)
  /\ ~HoldsIndicator /\ FirstWordCapitalized
  /\ HoldsVersionMarker /\ ~HoldsTrademark
  /\ is_valid = TRUE

(***************************************************************************)
(* The extractors.  A parsed page is the sequence, in document order, of   *)
(* the elements an extractor reads; each element carries its tag, whether  *)
(* its list stands under a service-related heading (li only), and a text   *)
(* that passed is_valid_offering_keyword.  An extractor yields a sequence  *)
(* of (keyword, confidence) pairs.                                         *)
(***************************************************************************)
Pair(keyword, confidence) == [keyword |-> keyword, confidence |-> confidence]

\* the texts of the elements with the given tag, each with one confidence
Tagged(doc, tag, confidence) ==
  LET elems == SelectSeq(doc, LAMBDA e : e.tag = tag)
  IN  [i \in DOMAIN elems |-> Pair(elems[i].text, confidence)]

extract_from_h1(doc) == Tagged(doc, "h1", 95)

\* soup.find('title'): the first title element only
extract_from_title(doc) ==
  LET titles == Tagged(doc, "title", 90)
  IN  IF titles = <<>> THEN <<>> ELSE <<Head(titles)>>

\* level by level, h2 first
extract_from_headings(doc) ==
  Tagged(doc, "h2", 88) \o Tagged(doc, "h3", 85) \o Tagged(doc, "h4", 82)
    \o Tagged(doc, "h5", 80) \o Tagged(doc, "h6", 78)

extract_from_meta(doc) == Tagged(doc, "meta", 85)

\* lines 700-705
valid_types ==
  {"Service", "Product", "Offer", "SoftwareApplication",
   "MedicalProcedure", "MedicalTherapy", "Course", "EducationalProgram",
   "ProfessionalService", "FinancialProduct", "Vehicle", "Drug", "ItemList"}

\* line 753: the exceptions the loop over the script blocks catches
CaughtErrors == {"JSONDecodeError", "AttributeError", "TypeError"}

\* the value of a "name" field: a string (one the validator accepts), a
\* number, a list of three strings or more, or no value
Name(kind, text) == [kind |-> kind, text |-> text]

NoName == Name("missing", "")

\* an element of the parsed data: a dict with its "@type" (a string, or
\* "object" for a JSON object), its "name" and the dicts of its "offers",
\* or a scalar
Item(shape, type, name, offers) ==
  [shape |-> shape, type |-> type, name |-> name, offers |-> offers]

ServiceItem(text) == Item("dict", "Service", Name("str", text), <<>>)

\* a script block: the outcome of json.loads(script.string), the parsed
\* value or the exception raised, and the items of the parsed value.
\* json.loads raises JSONDecodeError on a text that is no JSON document,
\* TypeError on None (a block without string), ValueError on an integer
\* literal longer than the interpreter's limit of digits, RecursionError on
\* a document nested deeper than the interpreter's stack allows
Script(loads, items) == [loads |-> loads, items |-> items]

NoScript == Script("none", <<>>)

\* lines 732 and 746: is_valid_offering_keyword tests len(text) at line 420
\* (TypeError for a number) and calls text.strip() at line 424
\* (AttributeError for a list)
NameError(name) ==
  CASE name.kind = "number" -> "TypeError"
    [] name.kind = "list"   -> "AttributeError"
    [] OTHER                -> None

NameKeywords(name) ==
  IF name.kind = "str" THEN <<Pair(name.text, 100)>> ELSE <<>>

Raised(keywords, error) == [keywords |-> keywords, raised |-> error]

\* lines 741-750: the names of the offers, up to the first that raises
RECURSIVE OfferLoop(_, _)
OfferLoop(offers, keywords) ==
  IF offers = <<>> THEN Raised(keywords, None)
  ELSE IF NameError(Head(offers)) # None
    THEN Raised(keywords, NameError(Head(offers)))
  ELSE OfferLoop(Tail(offers), keywords \o NameKeywords(Head(offers)))

\* lines 716-750: the items of one block, up to the first that raises;
\* the keywords appended before stay in the list
RECURSIVE ItemLoop(_, _)
ItemLoop(items, keywords) ==
  IF items = <<>> THEN Raised(keywords, None)
  ELSE
    LET item == Head(items)
    IN  IF item.shape # "dict"
          THEN ItemLoop(Tail(items), keywords)
        ELSE IF item.type = "object"
          THEN Raised(keywords, "TypeError")
        ELSE IF item.type \notin valid_types
          THEN ItemLoop(Tail(items), keywords)
        ELSE IF NameError(item.name) # None
          THEN Raised(keywords, NameError(item.name))
        ELSE
          LET offered == OfferLoop(item.offers,
                                   keywords \o NameKeywords(item.name))
          IN  IF offered.raised # None THEN offered
              ELSE ItemLoop(Tail(items), offered.keywords)

\* lines 707-755: the script blocks in document order; an exception of
\* CaughtErrors ends the block, any other exception leaves the function
RECURSIVE ScriptLoop(_, _)
ScriptLoop(scripts, keywords) ==
  IF scripts = <<>> THEN Raised(keywords, None)
  ELSE
    LET script == Head(scripts)
        block  == IF script.loads = "ok"
                    THEN ItemLoop(script.items, keywords)
                    ELSE Raised(keywords, script.loads)
    IN  IF block.raised = None \/ block.raised \in CaughtErrors
          THEN ScriptLoop(Tail(scripts), block.keywords)
          ELSE block

\* soup.find_all('script', type='application/ld+json')
Scripts(doc) ==
  LET elems == SelectSeq(doc, LAMBDA e : e.tag = "json_ld")
  IN  [i \in DOMAIN elems |-> elems[i].script]

\* the list returned when the function returns
extract_from_json_ld(doc) == ScriptLoop(Scripts(doc), <<>>).keywords

\* the exception that leaves extract_from_json_ld, None when it returns
json_ld_raises(doc) == ScriptLoop(Scripts(doc), <<>>).raised

extract_from_lists(doc) ==
  LET items == SelectSeq(doc, LAMBDA e : e.tag = "li")
  IN  [i \in DOMAIN items |->
         Pair(items[i].text, IF items[i].context THEN 85 ELSE 75)]

extract_from_strong_emphasis(doc) ==
  Tagged(doc, "strong", 78) \o Tagged(doc, "b", 78)

\* headings that are direct children of a service-related section
extract_from_service_sections(doc) == Tagged(doc, "section_heading", 75)

\* items of a prose listing; only on offering URLs
extract_from_paragraphs(doc, u) ==
  IF ~is_offering_url(u) THEN <<>> ELSE Tagged(doc, "paragraph_item", 70)

extract_from_offering_cards(doc) == Tagged(doc, "card", 80)

(***************************************************************************)
(* ServicePageExtractor.extract_keywords                                   *)
(***************************************************************************)
Source(method, keywords) == [method |-> method, keywords |-> keywords]

Lookup(dict, key) == dict[CHOOSE i \in DOMAIN dict : dict[i].key = key]

\* dict[key] = value: a key already present keeps its position
Store(dict, item) ==
  IF item.key \in Keys(dict)
    THEN [i \in DOMAIN dict |-> IF dict[i].key = item.key THEN item ELSE dict[i]]
    ELSE Append(dict, item)

\* variant: an occurrence of equal confidence replaces the stored one
IsBetter_or_equal(dict, keyword, confidence) ==
  keyword \notin Keys(dict) \/ Lookup(dict, keyword).confidence <= confidence

\* lines 1054, 1075, 1194
IsBetter(dict, keyword, confidence) ==
  keyword \notin Keys(dict) \/ Lookup(dict, keyword).confidence < confidence

\* the inner loop of lines 1052-1059
RECURSIVE MergeKeywords(_, _, _, _)
MergeKeywords(dict, method, keywords, u) ==
  IF keywords = <<>> THEN dict
  ELSE LET kw == Head(keywords)
           item == [key        |-> kw.keyword,
                    confidence |-> kw.confidence,
                    method     |-> method,
                    url        |-> u]
       IN  MergeKeywords(IF IsBetter(dict, kw.keyword, kw.confidence)
                           THEN Store(dict, item) ELSE dict,
                         method, Tail(keywords), u)

\* the outer loop of lines 1051-1059
RECURSIVE MergeSources(_, _, _)
MergeSources(dict, sources, u) ==
  IF sources = <<>> THEN dict
  ELSE MergeSources(
         MergeKeywords(dict, Head(sources).method, Head(sources).keywords, u),
         Tail(sources), u)

\* lines 1041-1049
PrimarySources(doc) ==
  << Source("h1", extract_from_h1(doc)),
     Source("title", extract_from_title(doc)),
     Source("headings", extract_from_headings(doc)),
     Source("meta", extract_from_meta(doc)),
     Source("json_ld", extract_from_json_ld(doc)),
     Source("lists", extract_from_lists(doc)),
     Source("strong", extract_from_strong_emphasis(doc)) >>

\* lines 1068-1071
FallbackSources(doc, u) ==
  << Source("service_sections", extract_from_service_sections(doc)),
     Source("paragraphs", extract_from_paragraphs(doc, u)) >>

\* variant: the dict of the preceding call is used again
NewKeywords_stale(previous) == previous

\* lines 1038, 1179: all_keywords = {}; previous is the dict the preceding
\* call built
NewKeywords(previous) == <<>>

\* variant: the fallback extractors are always run
FallbackEngaged_always(primary) == TRUE

\* line 1062
FallbackEngaged(primary) == Len(primary) < 3

extract_keywords(previous, doc, u) ==
  LET primary  == MergeSources(NewKeywords(previous), PrimarySources(doc), u)
      complete == IF FallbackEngaged(primary)
                    THEN MergeSources(primary, FallbackSources(doc, u), u)
                    ELSE primary
  IN  deduplicate_keywords(complete)

(***************************************************************************)
(* ServiceListingExtractor.extract_keywords                                *)
(***************************************************************************)
listing_extract_keywords(previous, doc, u) ==
  LET keywords == extract_from_offering_cards(doc)
                    \o Tagged(doc, "h2", 75) \o Tagged(doc, "h3", 75)
  IN  MergeKeywords(NewKeywords(previous), "offering_card", keywords, u)

(***************************************************************************)
(* Specification SpecExtract: ServicePageExtractor.extract_keywords called *)
(* twice on one detail page, other pages being extracted before and in     *)
(* between                                                                 *)
(***************************************************************************)
MaxElements == 2

\* an element with its text; as a JSON-LD script it is the block
\* {"@type": "Service", "name": text}
Element(tag, text) ==
  [tag |-> tag, text |-> text, context |-> tag = "li",
   script |-> IF tag = "json_ld" THEN Script("ok", <<ServiceItem(text)>>)
                                 ELSE NoScript]

ExtractKeyPool == {"api", "API", "apis", "tool"}

DetailTagPool ==
  {"h1", "meta", "json_ld", "li", "section_heading", "paragraph_item"}

DetailElementPool ==
  {Element(tag, text) : tag \in DetailTagPool, text \in ExtractKeyPool}

\* the pages of at most max elements of the pool
PagePool(elements, max) == UNION {[1..n -> elements] : n \in 0..max}

PageUrlPool ==
  {URL("https", "example.com", "/services/api"),
   URL("https", "example.com", "/company")}

\* the other document: a detail page and a listing page
OtherPage == <<Element("json_ld", "rapid"), Element("card", "Rapid Tool")>>
OtherUrl == URL("https", "example.com", "/services")

InitExtract ==
  /\ pc = "extract"
  /\ page \in PagePool(DetailElementPool, MaxElements)
  /\ page_url \in PageUrlPool
  /\ all_keywords = <<>>
  /\ first_call = <<>>
  /\ second_call = <<>>
  /\ interleaved = FALSE
  /\ UrlIdle /\ LinkIdle /\ DedupIdle /\ ValidIdle
  /\ SystemIdle

\* an exception that leaves extract_from_json_ld leaves extract_keywords
\* (line 1046), and no mapping is returned
ExtractKeywords ==
  /\ pc = "extract"
  /\ IF json_ld_raises(page) = None
       THEN /\ all_keywords' = extract_keywords(all_keywords, page, page_url)
            /\ first_call' = all_keywords'
            /\ pc' = "extracted"
       ELSE /\ UNCHANGED <<all_keywords, first_call>>
            /\ pc' = "raised"
  /\ UNCHANGED <<page, page_url, second_call, interleaved,
                 urlVars, linkVars, dedupVars,
               validVars, systemVars>>

ExtractKeywordsAgain ==
  /\ pc = "extracted"
  /\ all_keywords' = extract_keywords(all_keywords, page, page_url)
  /\ second_call' = all_keywords'
  /\ pc' = "extracted_again"
  /\ UNCHANGED <<page, page_url, first_call, interleaved,
                 urlVars, linkVars, dedupVars,
               validVars, systemVars>>

ExtractOtherDetail ==
  /\ pc \in {"extract", "extracted"}
  /\ all_keywords' = extract_keywords(all_keywords, OtherPage, OtherUrl)
  /\ interleaved' = (pc = "extracted")
  /\ UNCHANGED <<pc, page, page_url, first_call, second_call,
                 urlVars, linkVars, dedupVars,
               validVars, systemVars>>

ExtractOtherListing ==
  /\ pc \in {"extract", "extracted"}
  /\ all_keywords' = listing_extract_keywords(all_keywords, OtherPage, OtherUrl)
  /\ interleaved' = (pc = "extracted")
  /\ UNCHANGED <<pc, page, page_url, first_call, second_call,
                 urlVars, linkVars, dedupVars,
               validVars, systemVars>>

NextExtract ==
  \/ ExtractKeywords
  \/ ExtractKeywordsAgain
  \/ ExtractOtherDetail
  \/ ExtractOtherListing

SpecExtract == InitExtract /\ [][NextExtract]_vars

\* every occurrence of a keyword the call merges, in merge order: those of
\* the primary extractors and, when these give fewer than three distinct
\* keywords, those of the fallback extractors
RECURSIVE Occurrences(_)
Occurrences(sources) ==
  IF sources = <<>> THEN <<>>
  ELSE LET src == Head(sources)
       IN  [i \in DOMAIN src.keywords |->
              [keyword    |-> src.keywords[i].keyword,
               confidence |-> src.keywords[i].confidence,
               method     |-> src.method]]
             \o Occurrences(Tail(sources))

MergedOccurrences(doc, u) ==
  LET primary == Occurrences(PrimarySources(doc))
  IN  IF Cardinality({primary[i].keyword : i \in DOMAIN primary}) < 3
        THEN primary \o Occurrences(FallbackSources(doc, u))
        ELSE primary

\* C3: every key of the result carries the confidence of its
\* highest-confidence occurrence and the method of the first occurrence that
\* has it; a key JSON-LD produced is recorded with confidence 1.0, json_ld.
C3_HighestConfidenceFirstSeen ==
  (pc # "extract") =>
    LET occ == MergedOccurrences(page, page_url)
    IN  \A n \in DOMAIN first_call :
          LET rec  == first_call[n]
              mine == {i \in DOMAIN occ : occ[i].keyword = rec.key}
              best == {i \in mine :
                         \A j \in mine : occ[j].confidence <= occ[i].confidence}
              win  == CHOOSE i \in best : \A j \in best : i <= j
          IN  /\ mine # {}
              /\ rec.confidence = occ[win].confidence
              /\ rec.method = occ[win].method
              /\ (\E i \in mine : occ[i].method = "json_ld") =>
                    (rec.confidence = 100 /\ rec.method = "json_ld")

\* two extractors gave one key with equal confidence, and the result
\* records it with the method of the earlier one
C3_Witness ==
  /\ pc # "extract"
  /\ LET occ == MergedOccurrences(page, page_url)
     IN  \E n \in DOMAIN first_call, i, j \in DOMAIN occ :
           /\ i < j
           /\ occ[i].keyword = first_call[n].key
           /\ occ[j].keyword = first_call[n].key
           /\ occ[i].method # occ[j].method
           /\ occ[i].confidence = occ[j].confidence
           /\ first_call[n].confidence = occ[i].confidence
           /\ first_call[n].method = occ[i].method

LeadPool ==
  { <<>>,
    <<Element("h1", "Cloud Audit")>>,
    <<Element("h1", "Cloud Audit"), Element("meta", "Payroll Services")>>,
    <<Element("h1", "Cloud Audit"), Element("meta", "Payroll Services"),
      Element("li", "Web Hosting")>>,
    <<Element("h1", "Web Hosting"), Element("meta", "Web Hosting"),
      Element("li", "Web Hosting")>> }

FallbackTagPool == {"h1", "li", "section_heading", "paragraph_item"}

FallbackKeyPool == {"api", "apis", "tool"}

FallbackElementPool ==
  {Element(tag, text) : tag \in FallbackTagPool, text \in FallbackKeyPool}

InitFallback ==
  /\ pc = "extract"
  /\ page \in {lead \o rest :
                 lead \in LeadPool,
                 rest \in PagePool(FallbackElementPool, MaxElements)}
  /\ page_url \in PageUrlPool
  /\ all_keywords = <<>>
  /\ first_call = <<>>
  /\ second_call = <<>>
  /\ interleaved = FALSE
  /\ UrlIdle /\ LinkIdle /\ DedupIdle /\ ValidIdle
  /\ SystemIdle

NextFallback == ExtractKeywords

SpecFallback == InitFallback /\ [][NextFallback]_vars

FallbackMethods == {"service_sections", "paragraphs"}

\* the distinct keywords the extractors of the given sources yield
KeywordsOf(sources) ==
  LET occ == Occurrences(sources)
  IN  {occ[i].keyword : i \in DOMAIN occ}

\* the number of keywords the primary extractors yield together
PrimaryYield(doc) == Cardinality(KeywordsOf(PrimarySources(doc)))

\* C19: when the primary extractors together yield 3 keywords or more, no
\* key of the result has method service_sections or paragraphs; when they
\* yield fewer than 3 (zero included) a mapping is returned into which the
\* fallback extractors were merged: a keyword only they yield, and that no
\* other keyword of the page collides with, is in the result with a
\* fallback method.
C19_FallbackOnlyBelowThree ==
  (pc = "extracted") =>
    LET primary  == KeywordsOf(PrimarySources(page))
        fallback == KeywordsOf(FallbackSources(page, page_url))
    IN  /\ PrimaryYield(page) >= 3 =>
             \A n \in DOMAIN first_call :
               first_call[n].method \notin FallbackMethods
        /\ PrimaryYield(page) < 3 =>
             \A k \in fallback \ primary :
               (\A other \in (primary \cup fallback) \ {k} :
                  ~CollideStripped(k, other)) =>
                 \E n \in DOMAIN first_call :
                   /\ first_call[n].key = k
                   /\ first_call[n].method \in FallbackMethods

\* the primary extractors yielded three keywords on a page that has a
\* keyword for a fallback extractor, and the result is the three keywords
C19_Witness ==
  /\ pc = "extracted"
  /\ PrimaryYield(page) = 3
  /\ KeywordsOf(FallbackSources(page, page_url))
       \ KeywordsOf(PrimarySources(page)) # {}
  /\ Keys(first_call) = KeywordsOf(PrimarySources(page))

(***************************************************************************)
(* Specification SpecJsonLd: ServicePageExtractor.extract_keywords applied *)
(* to one page of JSON-LD script blocks, well-formed and malformed, and    *)
(* other elements                                                          *)
(***************************************************************************)
NumberName == Name("number", "")

ListName == Name("list", "")

\* the script blocks of the pages
ScriptPool ==
  { Script("ok", <<ServiceItem("Cloud Audit")>>),
    Script("ok", <<ServiceItem("Web Hosting")>>),
    Script("ok", <<Item("dict", "Thing", Name("str", "Data Audit"), <<>>)>>),
    Script("ok", <<Item("dict", "Service", NoName,
                        <<Name("str", "Payroll Services")>>)>>),
    Script("ok", <<Item("scalar", "", NoName, <<>>)>>),
    Script("ok", <<Item("dict", "Service", NumberName, <<>>)>>),
    Script("ok", <<Item("dict", "Service", ListName, <<>>)>>),
    Script("ok", <<Item("dict", "object", Name("str", "Data Audit"), <<>>)>>),
    Script("ok", <<ServiceItem("Data Audit"),
                   Item("dict", "Service", NumberName, <<>>)>>),
    Script("ok", <<Item("dict", "Service", NumberName, <<>>),
                   ServiceItem("Data Audit")>>),
    Script("ok", <<Item("dict", "Service", Name("str", "Data Audit"),
                        <<NumberName, Name("str", "Payroll Services")>>)>>),
    Script("JSONDecodeError", <<>>),
    Script("TypeError", <<>>),
    Script("ValueError", <<>>),
    Script("RecursionError", <<>>) }

JsonLdElementPool ==
  {[tag |-> "json_ld", text |-> "", context |-> FALSE, script |-> script] :
     script \in ScriptPool}
    \cup {Element("h1", "tool"), Element("li", "Cloud Audit")}

InitJsonLd ==
  /\ pc = "extract"
  /\ page \in PagePool(JsonLdElementPool, MaxElements)
  /\ page_url = URL("https", "example.com", "/services/api")
  /\ all_keywords = <<>>
  /\ first_call = <<>>
  /\ second_call = <<>>
  /\ interleaved = FALSE
  /\ UrlIdle /\ LinkIdle /\ DedupIdle /\ ValidIdle
  /\ SystemIdle

NextJsonLd == ExtractKeywords

SpecJsonLd == InitJsonLd /\ [][NextJsonLd]_vars

\* the block could not be parsed, or one of its fields has a shape that
\* makes its processing raise
IsMalformed(element) ==
  /\ element.tag = "json_ld"
  /\ \/ element.script.loads # "ok"
     \/ ItemLoop(element.script.items, <<>>).raised # None

\* the page without its malformed script blocks
WellFormedPart(doc) == SelectSeq(doc, LAMBDA e : ~IsMalformed(e))

\* C20: on a page with a malformed JSON-LD script block the call returns
\* normally, and every keyword the extractors yield on the rest of the
\* page (the other script blocks and the other elements) is a key of the
\* result unless another such keyword collides with it.
C20_MalformedBlockSkipped ==
  (pc # "extract" /\ \E i \in DOMAIN page : IsMalformed(page[i])) =>
    /\ pc = "extracted"
    /\ LET others == KeywordsOf(PrimarySources(WellFormedPart(page)))
       IN  \A k \in others :
             (\A other \in others \ {k} : ~CollideStripped(k, other)) =>
               k \in Keys(first_call)

(***************************************************************************)
(* Specification SpecListing: ServiceListingExtractor.extract_keywords     *)
(* applied to one listing page                                             *)
(***************************************************************************)
ListingKeyPool == {"Audit", "Audits", "audit", "Cloud Audit"}

ListingTagPool == {"card", "h2", "h3"}

ListingElementPool ==
  {Element(tag, text) : tag \in ListingTagPool, text \in ListingKeyPool}

InitListing ==
  /\ pc = "listing"
  /\ page \in PagePool(ListingElementPool, MaxElements)
  /\ page_url = OtherUrl
  /\ all_keywords = <<>>
  /\ first_call = <<>>
  /\ second_call = <<>>
  /\ interleaved = FALSE
  /\ UrlIdle /\ LinkIdle /\ DedupIdle /\ ValidIdle
  /\ SystemIdle

ExtractListing ==
  /\ pc = "listing"
  /\ all_keywords' = listing_extract_keywords(all_keywords, page, page_url)
  /\ first_call' = all_keywords'
  /\ pc' = "listed"
  /\ UNCHANGED <<page, page_url, second_call, interleaved,
                 urlVars, linkVars, dedupVars,
               validVars, systemVars>>

NextListing == ExtractListing

SpecListing == InitListing /\ [][NextListing]_vars

\* C4: the mapping of a listing page holds one record per keyword and no two
\* keys equal ignoring case, no singular/plural pair and no substring pair.
C4_ListingNoNearDuplicates ==
  (pc = "listed") =>
    /\ \A m, n \in DOMAIN first_call :
         m # n => first_call[m].key # first_call[n].key
    /\ \A a, b \in Keys(first_call) :
         a # b => /\ ~EqualIgnoringCase(a, b)
                  /\ ~PluralOf(b, a)
                  /\ ~SubstringOf(a, b)

(***************************************************************************)
(* MenuParser (src/parser.py).  A parsed document is the record of the     *)
(* item texts each of the four detection methods finds in it.  The parser  *)
(* keeps the parsed document of the call in its field soup, and every      *)
(* detection method reads that field.                                      *)
(***************************************************************************)
Soup(css, semantic, aria, common) ==
  [css |-> css, semantic |-> semantic, aria |-> aria, common |-> common]

\* str.isdigit
isdigit(s) == s # "" /\ \A i \in 1..Len(s) : Char(s, i) \in Digits

\* line 298
noise_words == {"skip to content", "skip navigation", "menu", "toggle"}

\* lines 278-304
clean_menu_items(items) ==
  {item \in items :
     /\ item # "" /\ strip(item) # ""
     /\ Len(item) >= 2
     /\ Len(item) <= 100
     /\ ~isdigit(item)
     /\ lower(item) \notin noise_words}

\* lines 90-108 for a caller that is alone on the parser
extract_menu_items(soup) ==
  clean_menu_items(soup.css \cup soup.semantic \cup soup.aria \cup soup.common)

(***************************************************************************)
(* Specification SpecMenu: two workers call parse on one MenuParser, each  *)
(* with a document of its own                                              *)
(***************************************************************************)
Workers == {1, 2}

SoupPool ==
  { Soup({"Services", "menu"}, {"Services", "About"}, {}, {"7"}),
    Soup({"Pricing"}, {"Pricing"}, {"Contact"}, {"Pricing", "x"}),
    Soup({}, {}, {}, {"Careers"}) }

InitMenu ==
  /\ pc = "menu"
  /\ parser_soup = None
  /\ worker_pc = [w \in Workers |-> "parse"]
  /\ worker_html \in [Workers -> SoupPool]
  /\ worker_items = [w \in Workers |-> {}]
  /\ worker_result = [w \in Workers |-> {}]
  /\ UrlIdle /\ LinkIdle /\ DedupIdle /\ ExtractIdle /\ ValidIdle
  /\ TextIdle /\ CrawlIdle /\ ToolIdle

\* what a step of worker w leaves alone besides the named variables
MenuStep(w, from, to) ==
  /\ worker_pc[w] = from
  /\ worker_pc' = [worker_pc EXCEPT ![w] = to]
  /\ UNCHANGED <<pc, worker_html, urlVars, linkVars, dedupVars, extractVars,
                 validVars, textVars, crawlVars, toolVars>>

\* line 76: self.soup = BeautifulSoup(html_content, 'html.parser')
ParseSoup(w) ==
  /\ MenuStep(w, "parse", "css")
  /\ parser_soup' = worker_html[w]
  /\ worker_items' = [worker_items EXCEPT ![w] = {}]
  /\ UNCHANGED worker_result

\* line 93: all_items.update(self._find_by_css_selectors())
FindByCssSelectors(w) ==
  /\ MenuStep(w, "css", "semantic")
  /\ worker_items' = [worker_items EXCEPT ![w] = @ \cup parser_soup.css]
  /\ UNCHANGED <<parser_soup, worker_result>>

\* line 96: all_items.update(self._find_by_semantic_tags())
FindBySemanticTags(w) ==
  /\ MenuStep(w, "semantic", "aria")
  /\ worker_items' = [worker_items EXCEPT ![w] = @ \cup parser_soup.semantic]
  /\ UNCHANGED <<parser_soup, worker_result>>

\* line 99: all_items.update(self._find_by_aria_attributes())
FindByAriaAttributes(w) ==
  /\ MenuStep(w, "aria", "common")
  /\ worker_items' = [worker_items EXCEPT ![w] = @ \cup parser_soup.aria]
  /\ UNCHANGED <<parser_soup, worker_result>>

\* line 102: all_items.update(self._find_by_common_patterns())
FindByCommonPatterns(w) ==
  /\ MenuStep(w, "common", "clean")
  /\ worker_items' = [worker_items EXCEPT ![w] = @ \cup parser_soup.common]
  /\ UNCHANGED <<parser_soup, worker_result>>

\* lines 105-108 and 78
ReturnMenuItems(w) ==
  /\ MenuStep(w, "clean", "returned")
  /\ worker_result' = [worker_result EXCEPT
                         ![w] = clean_menu_items(worker_items[w])]
  /\ UNCHANGED <<parser_soup, worker_items>>

NextMenu ==
  \E w \in Workers :
    \/ ParseSoup(w)
    \/ FindByCssSelectors(w)
    \/ FindBySemanticTags(w)
    \/ FindByAriaAttributes(w)
    \/ FindByCommonPatterns(w)
    \/ ReturnMenuItems(w)

SpecMenu == InitMenu /\ [][NextMenu]_vars

\* C21: whatever the interleaving, a worker that called parse on the shared
\* parser is returned the menu items of its own document, as if it had run
\* alone.
C21_WorkersIsolated ==
  \A w \in Workers :
    worker_pc[w] = "returned" =>
      worker_result[w] = extract_menu_items(worker_html[w])

(***************************************************************************)
(* normalize_keyword and sanitize_text (src/utils.py).  The regular        *)
(* expressions are applied to ASCII text: \s is a character of Whitespace, *)
(* \w a letter, a digit or "_", and the dash class of sanitize_text holds  *)
(* the hyphen.                                                             *)
(***************************************************************************)
\* lines 20-27, in the order of the dict
SPECIAL_CHAR_REPLACEMENTS ==
  << <<"&", " and ">>, <<"/", " or ">>, <<"+", " plus ">>, <<"@", " at ">>,
     <<"#", " number ">>, <<"%", " percent ">> >>

\* s.replace(c, r) for a character c
RECURSIVE replace(_, _, _)
replace(s, c, r) ==
  IF s = "" THEN ""
  ELSE (IF Char(s, 1) = c THEN r ELSE Char(s, 1)) \o replace(Tail(s), c, r)

\* lines 59-60
RECURSIVE ReplaceSpecial(_, _)
ReplaceSpecial(s, table) ==
  IF table = <<>> THEN s
  ELSE ReplaceSpecial(replace(s, Head(table)[1], Head(table)[2]), Tail(table))

\* line 63: re.sub(r'[^\w\s\-]', '', s)
RECURSIVE RemoveSpecial(_)
RemoveSpecial(s) ==
  IF s = "" THEN ""
  ELSE (IF IsWordChar(Char(s, 1)) \/ Char(s, 1) \in Whitespace
             \/ Char(s, 1) = "-"
          THEN Char(s, 1) ELSE "") \o RemoveSpecial(Tail(s))

\* s without its leading characters of cs
RECURSIVE SkipRun(_, _)
SkipRun(s, cs) ==
  IF s # "" /\ Char(s, 1) \in cs THEN SkipRun(Tail(s), cs) ELSE s

\* re.sub(r'[cs]+', r, s): every run of characters of cs becomes r
RECURSIVE CollapseRuns(_, _, _)
CollapseRuns(s, cs, r) ==
  IF s = "" THEN ""
  ELSE IF Char(s, 1) \in cs
    THEN r \o CollapseRuns(SkipRun(s, cs), cs, r)
  ELSE Char(s, 1) \o CollapseRuns(Tail(s), cs, r)

\* re.sub(r'[cs]{2,}', r, s): every run of two characters of cs or more
\* becomes r
RECURSIVE ReplaceLongRuns(_, _, _)
ReplaceLongRuns(s, cs, r) ==
  IF s = "" THEN ""
  ELSE IF Len(s) >= 2 /\ Char(s, 1) \in cs /\ Char(s, 2) \in cs
    THEN r \o ReplaceLongRuns(SkipRun(s, cs), cs, r)
  ELSE Char(s, 1) \o ReplaceLongRuns(Tail(s), cs, r)

\* s.strip(chars)
RECURSIVE strip_chars(_, _)
strip_chars(s, cs) ==
  IF s = "" THEN s
  ELSE IF Char(s, 1) \in cs THEN strip_chars(Tail(s), cs)
  ELSE IF Char(s, Len(s)) \in cs
    THEN strip_chars(SubSeq(s, 1, Len(s) - 1), cs)
  ELSE s

\* lines 52-74
normalize_keyword(keyword) ==
  IF keyword = "" THEN ""
  ELSE
    LET lowered  == lower(keyword)
        replaced == ReplaceSpecial(lowered, SPECIAL_CHAR_REPLACEMENTS)
        removed  == RemoveSpecial(replaced)
        spaced   == CollapseRuns(removed, Whitespace, " ")
        hyphened == CollapseRuns(spaced, {"-"}, "-")
    IN  strip_chars(strip(hyphened), {"-"})

\* line 227: re.sub(r'([a-z])([A-Z])', r'\1 \2', s)
RECURSIVE SplitCamelCase(_)
SplitCamelCase(s) ==
  IF Len(s) < 2 THEN s
  ELSE IF Char(s, 1) \in LowerLetters /\ Char(s, 2) \in UpperLetters
    THEN Char(s, 1) \o " " \o SplitCamelCase(Tail(s))
  ELSE Char(s, 1) \o SplitCamelCase(Tail(s))

\* line 234: text.split('@')[0]
BeforeAt(s) ==
  LET at == FirstOf({"@"}, s)
  IN  IF at = 0 THEN s ELSE SubSeq(s, 1, at - 1)

\* line 238: where r'\d{3}[-.\s)]\d{3,4}' first matches, 0 if nowhere
PhoneStart(s) ==
  LET hits == {i \in 1..(Len(s) - 6) :
                 /\ \A k \in 0..2 : Char(s, i + k) \in Digits
                 /\ Char(s, i + 3) \in {"-", ".", ")"} \cup Whitespace
                 /\ \A k \in 4..6 : Char(s, i + k) \in Digits}
  IN  IF hits = {} THEN 0 ELSE CHOOSE i \in hits : \A j \in hits : i <= j

\* line 251, without the backquote (no TLA+ string holds it)
StrippedPunctuation ==
  {".", ",", ";", ":", "!", "?", "'", "\"", "(", ")", "[", "]", "{", "}"}

\* lines 223-253
sanitize_text(text) ==
  IF text = "" THEN ""
  ELSE
    LET camel    == SplitCamelCase(text)
        dashed   == ReplaceLongRuns(camel, {"-"}, " ")
        mailed   == IF Contains("@", dashed) THEN strip(BeforeAt(dashed))
                                             ELSE dashed
        phoned   == IF PhoneStart(mailed) # 0
                      THEN strip(SubSeq(mailed, 1, PhoneStart(mailed) - 1))
                      ELSE mailed
        periods  == ReplaceLongRuns(phoned, {"."}, "")
        exclaims == ReplaceLongRuns(periods, {"!"}, "")
        spaced   == strip(CollapseRuns(exclaims, Whitespace, " "))
    IN  strip_chars(spaced, StrippedPunctuation)

(***************************************************************************)
(* Specification SpecText: normalize_keyword and sanitize_text applied to  *)
(* one text                                                                *)
(***************************************************************************)
MaxChars == 3

CharPool == {"a", "B", " ", "-", "&", "!", "_", ".", "@", "("}

\* the texts of at most max characters of the pool
RECURSIVE CharTexts(_)
CharTexts(max) ==
  IF max = 0 THEN {""}
  ELSE LET shorter == CharTexts(max - 1)
       IN  shorter \cup {s \o c : s \in shorter, c \in CharPool}

LongTextPool ==
  { "- Cloud Hosting", "Cloud Services !", "( Cloud )", "R&D / QA",
    "C++", "50% off", "a\t\tb -- c", "SurveysUsing", "a...b", "Wait!!",
    "info@example.com", "Call 555-1234 now", "Cloud (Beta) Hosting.",
    "e-mail, fax", "Tel (555) 1234" }

InitText ==
  /\ pc = "text"
  /\ raw_text \in CharTexts(MaxChars) \cup LongTextPool
  /\ normalized = None
  /\ sanitized = None
  /\ UrlIdle /\ LinkIdle /\ DedupIdle /\ ExtractIdle /\ ValidIdle
  /\ MenuIdle /\ CrawlIdle /\ ToolIdle

NormalizeKeyword ==
  /\ pc = "text"
  /\ normalized' = normalize_keyword(raw_text)
  /\ pc' = "normalized"
  /\ UNCHANGED <<raw_text, sanitized, urlVars, linkVars, dedupVars,
                 extractVars, validVars, menuVars, crawlVars,
                 toolVars>>

SanitizeText ==
  /\ pc = "text"
  /\ sanitized' = sanitize_text(raw_text)
  /\ pc' = "sanitized"
  /\ UNCHANGED <<raw_text, normalized, urlVars, linkVars, dedupVars,
                 extractVars, validVars, menuVars, crawlVars,
                 toolVars>>

NextText == NormalizeKeyword \/ SanitizeText

SpecText == InitText /\ [][NextText]_vars

\* s has a run of two characters of cs or more
HasRun(s, cs) ==
  \E i \in 1..(Len(s) - 1) : Char(s, i) \in cs /\ Char(s, i + 1) \in cs

\* s begins or ends with a character of cs
HasEdge(s, cs) == s # "" /\ (Char(s, 1) \in cs \/ Char(s, Len(s)) \in cs)

\* C22: the result of normalize_keyword has no leading or trailing
\* whitespace, no leading or trailing hyphen, no run of two whitespace
\* characters or more and no run of two hyphens or more, and normalizing it
\* again returns it unchanged.
C22_NormalizedIsCanonical ==
  (pc = "normalized") =>
    /\ ~HasEdge(normalized, Whitespace)
    /\ ~HasEdge(normalized, {"-"})
    /\ ~HasRun(normalized, Whitespace)
    /\ ~HasRun(normalized, {"-"})
    /\ normalize_keyword(normalized) = normalized

\* the places of raw where one stripped punctuation character stands
\* between two letters
InteriorPunctuation(raw) ==
  {i \in 1..(Len(raw) - 2) :
     /\ IsAlphaChar(Char(raw, i))
     /\ Char(raw, i + 1) \in StrippedPunctuation
     /\ IsAlphaChar(Char(raw, i + 2))}

\* C23: the result of sanitize_text has no run of two whitespace characters
\* or more and neither begins nor ends with a whitespace character or a
\* stripped punctuation, quote or bracket character; a punctuation
\* character between two letters of a text that holds no e-mail address
\* and no phone number is kept between them.
C23_SanitizedIsTrimmed ==
  (pc = "sanitized") =>
    /\ ~HasRun(sanitized, Whitespace)
    /\ ~HasEdge(sanitized, Whitespace)
    /\ ~HasEdge(sanitized, StrippedPunctuation)
    /\ (~Contains("@", raw_text) /\ PhoneStart(raw_text) = 0) =>
         \A i \in InteriorPunctuation(raw_text) :
           Contains(SubSeq(raw_text, i, i + 2), sanitized)

(***************************************************************************)
(* WebCrawler.run (src/crawler.py) against the tables companies and        *)
(* crawl_jobs (src/database.py).  Every DatabaseManager method is one      *)
(* transaction (get_connection commits when the method returns) and can    *)
(* raise; crawl_domain and crawl_services catch every exception and return *)
(* a result with its success flag.                                         *)
(***************************************************************************)
MaxCompanies == 2

Companies == 1..MaxCompanies

Procs == {1, 2}

\* the iterations of the loop that are followed
MaxIterations == MaxCompanies + 1

Statuses == {"pending", "in_progress", "completed", "failed"}

TerminalStatuses == {"completed", "failed"}

NoResult == [menu |-> FALSE, service |-> FALSE, raised |-> FALSE]

\* what a step of a crawler process leaves alone besides the crawler state
RunFrame ==
  UNCHANGED <<pc, is_active, urlVars, linkVars, dedupVars, extractVars,
              validVars, menuVars, textVars, toolVars>>

\* process p moves from one position to another
Goto(p, from, to) ==
  /\ run_pc[p] = from
  /\ run_pc' = [run_pc EXCEPT ![p] = to]

\* database.py lines 84-87: the pending active companies whose row no
\* other transaction holds, oldest first
NextPending(p) ==
  LET free == {c \in Companies :
                 /\ crawl_status[c] = "pending" /\ is_active[c]
                 /\ row_lock[c] \in {0, p}}
  IN  IF free = {} THEN 0 ELSE CHOOSE c \in free : \A d \in free : c <= d

\* database.py lines 105-122: the row is written once no other transaction
\* holds it
WriteStatus(p, c, status) ==
  /\ row_lock[c] \in {0, p}
  /\ crawl_status' = [crawl_status EXCEPT ![c] = status]

\* line 440, database.py lines 127-144: the companies in progress for more
\* than an hour go back to pending
ResetStuckJobs(p) ==
  /\ run_pc[p] = "reset"
  /\ \/ /\ \E stuck \in SUBSET {c \in Companies :
                                  /\ crawl_status[c] = "in_progress"
                                  /\ row_lock[c] = 0} :
             crawl_status' = [c \in Companies |->
                                IF c \in stuck THEN "pending"
                                               ELSE crawl_status[c]]
        /\ run_pc' = [run_pc EXCEPT ![p] = "count"]
     \/ /\ run_pc' = [run_pc EXCEPT ![p] = "raised"]
        /\ UNCHANGED crawl_status
  /\ UNCHANGED <<row_lock, crawl_jobs, run_company, run_job, run_result,
                 should_stop, processed>>
  /\ RunFrame

\* lines 443-448
GetPendingCount(p) ==
  /\ run_pc[p] = "count"
  /\ \/ run_pc' = [run_pc EXCEPT ![p] =
                     IF \E c \in Companies :
                          crawl_status[c] = "pending" /\ is_active[c]
                       THEN "loop" ELSE "returned"]
     \/ run_pc' = [run_pc EXCEPT ![p] = "raised"]
  /\ UNCHANGED <<crawl_status, row_lock, crawl_jobs, run_company, run_job,
                 run_result, should_stop, processed>>
  /\ RunFrame

\* line 455
ShouldStop(p) == should_stop[p]

\* line 455: while not self.should_stop
LoopTest(p) ==
  /\ Goto(p, "loop", IF ShouldStop(p) THEN "finish" ELSE "select")
  /\ UNCHANGED <<crawl_status, row_lock, crawl_jobs, run_company, run_job,
                 run_result, should_stop, processed>>
  /\ RunFrame

\* line 457, database.py lines 79-88: SELECT ... FOR UPDATE SKIP LOCKED
SelectPending(p) ==
  /\ run_pc[p] = "select"
  /\ \/ /\ run_company' = [run_company EXCEPT ![p] = NextPending(p)]
        /\ row_lock' = [c \in Companies |->
                          IF c = NextPending(p) THEN p ELSE row_lock[c]]
        /\ run_pc' = [run_pc EXCEPT ![p] = "commit"]
     \/ /\ run_pc' = [run_pc EXCEPT ![p] = "raised"]
        /\ UNCHANGED <<run_company, row_lock>>
  /\ run_job' = [run_job EXCEPT ![p] = 0]
  /\ run_result' = [run_result EXCEPT ![p] = NoResult]
  /\ UNCHANGED <<crawl_status, crawl_jobs, should_stop, processed>>
  /\ RunFrame

\* database.py lines 54 and 89: the transaction of the SELECT ends, and its
\* row lock with it, when get_next_pending_domain returns; lines 459-464
CommitSelect(p) ==
  /\ run_pc[p] = "commit"
  /\ row_lock' = [c \in Companies |-> IF row_lock[c] = p THEN 0 ELSE row_lock[c]]
  /\ \/ run_pc' = [run_pc EXCEPT ![p] =
                     IF run_company[p] = 0 THEN "finish" ELSE "mark"]
     \/ run_pc' = [run_pc EXCEPT ![p] = "raised"]
  /\ UNCHANGED <<crawl_status, crawl_jobs, run_company, run_job, run_result,
                 should_stop, processed>>
  /\ RunFrame

\* an exception raised at lines 466-523 enters the handler of line 525
Raise(p) ==
  /\ run_pc' = [run_pc EXCEPT ![p] = "handler"]
  /\ run_result' = [run_result EXCEPT ![p].raised = TRUE]

\* line 468
MarkInProgress(p) ==
  /\ run_pc[p] = "mark"
  /\ \/ /\ WriteStatus(p, run_company[p], "in_progress")
        /\ run_pc' = [run_pc EXCEPT ![p] = "create_job"]
        /\ UNCHANGED run_result
     \/ /\ Raise(p)
        /\ UNCHANGED crawl_status
  /\ UNCHANGED <<row_lock, crawl_jobs, run_company, run_job, should_stop,
                 processed>>
  /\ RunFrame

\* line 471, database.py lines 158-167
CreateCrawlJob(p) ==
  /\ run_pc[p] = "create_job"
  /\ \/ /\ crawl_jobs' = Append(crawl_jobs, [company |-> run_company[p],
                                             status  |-> "running"])
        /\ run_job' = [run_job EXCEPT ![p] = Len(crawl_jobs) + 1]
        /\ run_pc' = [run_pc EXCEPT ![p] = "crawl_domain"]
        /\ UNCHANGED run_result
     \/ /\ Raise(p)
        /\ UNCHANGED <<crawl_jobs, run_job>>
  /\ UNCHANGED <<crawl_status, row_lock, run_company, should_stop, processed>>
  /\ RunFrame

\* line 475: crawl_domain returns its result, success or not
CrawlDomain(p) ==
  /\ Goto(p, "crawl_domain", "crawl_services")
  /\ \E success \in BOOLEAN :
       run_result' = [run_result EXCEPT ![p].menu = success]
  /\ UNCHANGED <<crawl_status, row_lock, crawl_jobs, run_company, run_job,
                 should_stop, processed>>
  /\ RunFrame

\* line 479: crawl_services returns its result, success or not
CrawlServices(p) ==
  /\ Goto(p, "crawl_services", "update_job")
  /\ \E success \in BOOLEAN :
       run_result' = [run_result EXCEPT ![p].service = success]
  /\ UNCHANGED <<crawl_status, row_lock, crawl_jobs, run_company, run_job,
                 should_stop, processed>>
  /\ RunFrame

\* variant: one successful crawl is enough
Success_either(p) == run_result[p].menu \/ run_result[p].service

\* line 483
Success(p) == run_result[p].menu /\ run_result[p].service

\* lines 500-507 and 510-517, database.py lines 189-211
UpdateCrawlJob(p) ==
  /\ run_pc[p] = "update_job"
  /\ \/ /\ crawl_jobs' = [crawl_jobs EXCEPT ![run_job[p]].status =
                            IF Success(p) THEN "completed" ELSE "failed"]
        /\ run_pc' = [run_pc EXCEPT ![p] = "update_company"]
        /\ UNCHANGED run_result
     \/ /\ Raise(p)
        /\ UNCHANGED crawl_jobs
  /\ UNCHANGED <<crawl_status, row_lock, run_company, run_job, should_stop,
                 processed>>
  /\ RunFrame

\* lines 508 and 518-522
UpdateCompanyStatus(p) ==
  /\ run_pc[p] = "update_company"
  /\ \/ /\ WriteStatus(p, run_company[p],
                       IF Success(p) THEN "completed" ELSE "failed")
        /\ run_pc' = [run_pc EXCEPT ![p] = "progress"]
        /\ UNCHANGED run_result
     \/ /\ Raise(p)
        /\ UNCHANGED crawl_status
  /\ UNCHANGED <<row_lock, crawl_jobs, run_company, run_job, should_stop,
                 processed>>
  /\ RunFrame

\* variant: the handler leaves the company as it is
HandlerStatus_unchanged(current) == current

\* lines 527-531
HandlerStatus(current) == "failed"

\* lines 525-532: the handler; an exception it raises leaves run
HandleException(p) ==
  /\ run_pc[p] = "handler"
  /\ \/ /\ WriteStatus(p, run_company[p],
                       HandlerStatus(crawl_status[run_company[p]]))
        /\ run_pc' = [run_pc EXCEPT ![p] = "progress"]
     \/ /\ run_pc' = [run_pc EXCEPT ![p] = "raised"]
        /\ UNCHANGED crawl_status
  /\ UNCHANGED <<row_lock, crawl_jobs, run_company, run_job, run_result,
                 should_stop, processed>>
  /\ RunFrame

\* line 535: the iteration ends
LogProgress(p) ==
  /\ Goto(p, "progress", "loop")
  /\ processed[p] < MaxIterations
  /\ processed' = [processed EXCEPT ![p] = @ + 1]
  /\ UNCHANGED <<crawl_status, row_lock, crawl_jobs, run_company, run_job,
                 run_result, should_stop>>
  /\ RunFrame

\* lines 546-556
Finish(p) ==
  /\ run_pc[p] = "finish"
  /\ \E to \in {"returned", "raised"} : run_pc' = [run_pc EXCEPT ![p] = to]
  /\ UNCHANGED <<crawl_status, row_lock, crawl_jobs, run_company, run_job,
                 run_result, should_stop, processed>>
  /\ RunFrame

\* lines 696-699, main.py lines 58-71: SIGINT or SIGTERM arrives while run
\* executes
Stop(p) ==
  /\ run_pc[p] \notin {"off", "returned", "raised"}
  /\ ~should_stop[p]
  /\ should_stop' = [should_stop EXCEPT ![p] = TRUE]
  /\ UNCHANGED <<crawl_status, row_lock, crawl_jobs, run_pc, run_company,
                 run_job, run_result, processed>>
  /\ RunFrame

RunStep(p) ==
  \/ ResetStuckJobs(p)
  \/ GetPendingCount(p)
  \/ LoopTest(p)
  \/ SelectPending(p)
  \/ CommitSelect(p)
  \/ MarkInProgress(p)
  \/ CreateCrawlJob(p)
  \/ CrawlDomain(p)
  \/ CrawlServices(p)
  \/ UpdateCrawlJob(p)
  \/ UpdateCompanyStatus(p)
  \/ HandleException(p)
  \/ LogProgress(p)
  \/ Finish(p)

\* the crawler processes in states start run on some table of companies
InitRun(states) ==
  /\ pc = "run"
  /\ crawl_status \in [Companies -> Statuses]
  /\ is_active \in [Companies -> BOOLEAN]
  /\ row_lock = [c \in Companies |-> 0]
  /\ crawl_jobs = <<>>
  /\ run_pc \in states
  /\ run_company = [p \in Procs |-> 0]
  /\ run_job = [p \in Procs |-> 0]
  /\ run_result = [p \in Procs |-> NoResult]
  /\ should_stop = [p \in Procs |-> FALSE]
  /\ processed = [p \in Procs |-> 0]
  /\ UrlIdle /\ LinkIdle /\ DedupIdle /\ ExtractIdle /\ ValidIdle
  /\ MenuIdle /\ TextIdle /\ ToolIdle

(***************************************************************************)
(* Specification SpecRun: one crawler process, which a signal can stop     *)
(***************************************************************************)
InitOneCrawler == InitRun({[p \in Procs |-> IF p = 1 THEN "reset" ELSE "off"]})

NextRun == \E p \in Procs : RunStep(p) \/ Stop(p)

SpecRun == InitOneCrawler /\ [][NextRun]_vars

(***************************************************************************)
(* Specification SpecCrawlers: two crawler processes on one database       *)
(***************************************************************************)
InitCrawlers == InitRun({[p \in Procs |-> "reset"]})

NextCrawlers == \E p \in Procs : RunStep(p)

SpecCrawlers == InitCrawlers /\ [][NextCrawlers]_vars

(***************************************************************************)
(* Specification SpecRunFair: the one crawler process keeps executing      *)
(***************************************************************************)
SpecRunFair == SpecRun /\ WF_vars(RunStep(1))

\* the positions between the claim of a company and the end of its iteration
Crawling == {"create_job", "crawl_domain", "crawl_services", "update_job",
             "update_company"}

InIteration == Crawling \cup {"mark", "handler", "progress"}

PendingCompanies == {c \in Companies : crawl_status[c] = "pending" /\ is_active[c]}

\* C24: in WebCrawler.run the company of an iteration is in_progress while
\* it is crawled and, when the iteration ends, completed if and only if both
\* the menu crawl and the service crawl succeeded and no exception was
\* raised, failed otherwise; no finished iteration leaves it pending or
\* in_progress.
C24_IterationEndsTerminal ==
  \A p \in Procs :
    /\ run_pc[p] \in Crawling =>
         crawl_status[run_company[p]] = "in_progress"
    /\ run_pc[p] = "progress" =>
         crawl_status[run_company[p]] =
           IF /\ run_result[p].menu /\ run_result[p].service
              /\ ~run_result[p].raised
             THEN "completed" ELSE "failed"

\* an iteration ends after an exception raised once both crawls succeeded
C24_Witness ==
  \E p \in Procs :
    /\ run_pc[p] = "progress"
    /\ run_result[p].menu /\ run_result[p].service /\ run_result[p].raised
    /\ crawl_status[run_company[p]] = "failed"

\* C25: of two crawler processes on one database, once one has selected a
\* pending company and not yet marked it in_progress, the other does not
\* hold a selection of the same company.
C25_SelectionExclusive ==
  \A p, q \in Procs :
    (/\ p # q
     /\ run_pc[p] = "mark"
     /\ run_pc[q] \in {"commit", "mark"}) =>
      run_company[p] # run_company[q]

\* C28: once stop() has been called, run does not execute
\* get_next_pending_domain again, and the iteration in flight ends with its
\* company in a terminal status and its crawl job no longer running.
C28_StopClaimsNoFurther ==
  [][\A p \in Procs :
       should_stop[p] =>
         /\ ~(run_pc[p] = "select" /\ run_pc'[p] = "commit")
         /\ (run_pc[p] # "progress" /\ run_pc'[p] = "progress") =>
              /\ crawl_status'[run_company[p]] \in TerminalStatuses
              /\ run_job[p] # 0 =>
                   crawl_jobs'[run_job[p]].status # "running"]_vars

\* C29: with no other process at work, run terminates, and from the first
\* test of the loop on it ends at most as many iterations as there are
\* pending active companies.
C29_RunTerminates ==
  /\ <>(run_pc[1] \in {"returned", "raised"})
  /\ \A n \in 0..MaxCompanies :
       []((/\ run_pc[1] = "loop" /\ processed[1] = 0
           /\ Cardinality(PendingCompanies) = n)
            => [](processed[1] <= n))

\* run returns after one iteration for each company
C29_Witness ==
  /\ run_pc[1] = "returned"
  /\ processed[1] = MaxCompanies
  /\ PendingCompanies = {}

(***************************************************************************)
(* WebCrawler.crawl_services (src/crawler.py lines 204-372): the homepage  *)
(* is fetched, its offering links are classified and every link is         *)
(* fetched, extracted and stored in turn.  _fetch_page catches every       *)
(* exception and returns None; the extractors and the DatabaseManager      *)
(* calls can raise.                                                        *)
(***************************************************************************)
MaxServiceLinks == 3

LinkTypes == {"service_detail", "service_listing"}

\* lines 215-224
InitialResult ==
  [success |-> FALSE, error |-> None, pages_crawled |-> 0, pages_failed |-> 0,
   service_links_found |-> 0]

\* the classified links a homepage can give, by their types
ServiceLinksPool ==
  UNION {[1..n -> LinkTypes] : n \in 0..MaxServiceLinks}

ServiceFrame ==
  UNCHANGED <<pc, urlVars, linkVars, dedupVars, extractVars, validVars,
              menuVars, textVars, crawlVars, migrateVars>>

\* lines 362-370: the handlers of ValueError and Exception record the error
\* and the result is returned
ReturnError(message) ==
  /\ svc_result' = [svc_result EXCEPT !.error = message]
  /\ svc_pc' = "returned"

\* lines 230-239: the URL is built and validated, robots.txt is consulted
ValidateUrl ==
  /\ svc_pc = "start"
  /\ \/ /\ svc_pc' = "homepage"
        /\ UNCHANGED svc_result
     \/ \E message \in {"Invalid URL", "Crawling disallowed by robots.txt"} :
          ReturnError(message)
  /\ UNCHANGED <<svc_links, svc_idx, svc_attempted, svc_homepage>>
  /\ ServiceFrame

\* lines 246-251
FetchHomepage ==
  /\ svc_pc = "homepage"
  /\ \/ /\ svc_homepage' = TRUE
        /\ svc_pc' = "find"
        /\ UNCHANGED svc_result
     \/ /\ ReturnError("Failed to fetch homepage content")
        /\ UNCHANGED svc_homepage
  /\ UNCHANGED <<svc_links, svc_idx, svc_attempted>>
  /\ ServiceFrame

\* lines 258-266; find_service_links has no handler of its own, and urljoin
\* (service_extractor.py line 187) raises ValueError on an href such as
\* "http://[x"
FindHomepageLinks ==
  /\ svc_pc = "find"
  /\ \/ \E links \in ServiceLinksPool :
          /\ svc_links' = links
          /\ svc_idx' = 1
          /\ svc_result' =
               [svc_result EXCEPT !.service_links_found = Len(links),
                                  !.success = (links = <<>>)]
          /\ svc_pc' = IF links = <<>> THEN "returned" ELSE "fetch"
     \/ /\ ReturnError("Invalid IPv6 URL")
        /\ UNCHANGED <<svc_links, svc_idx>>
  /\ UNCHANGED <<svc_attempted, svc_homepage>>
  /\ ServiceFrame

\* lines 272 and 289, 305, 326: the loop goes on to the next link
Continue ==
  /\ svc_idx' = svc_idx + 1
  /\ svc_pc' = IF svc_idx + 1 > Len(svc_links) THEN "finish" ELSE "fetch"

\* variant: the handler of the loop body leaves the loop
PageError_break ==
  /\ svc_result' = [svc_result EXCEPT !.pages_failed = @ + 1]
  /\ svc_pc' = "finish"
  /\ UNCHANGED svc_idx

\* lines 323-326: the handler of the loop body
PageError ==
  /\ svc_result' = [svc_result EXCEPT !.pages_failed = @ + 1]
  /\ Continue

\* lines 284-291
FetchServicePage ==
  /\ svc_pc = "fetch"
  /\ svc_attempted' = svc_attempted \cup {svc_idx}
  /\ \/ /\ svc_result' = [svc_result EXCEPT !.pages_failed = @ + 1]
        /\ Continue
     \/ /\ svc_result' = [svc_result EXCEPT !.pages_crawled = @ + 1]
        /\ svc_pc' = "extract"
        /\ UNCHANGED svc_idx
  /\ UNCHANGED <<svc_links, svc_homepage>>
  /\ ServiceFrame

\* lines 294-299 and 320-321: the extractor of the link's type returns
\* keywords, returns none, or raises
ExtractServicePage ==
  /\ svc_pc = "extract"
  /\ \/ /\ svc_pc' = "section"
        /\ UNCHANGED <<svc_result, svc_idx>>
     \/ /\ Continue
        /\ UNCHANGED svc_result
     \/ PageError
  /\ UNCHANGED <<svc_links, svc_attempted, svc_homepage>>
  /\ ServiceFrame

\* lines 301-305
GetSectionTypeId ==
  /\ svc_pc = "section"
  /\ \/ /\ svc_pc' = "store"
        /\ UNCHANGED <<svc_result, svc_idx>>
     \/ /\ Continue
        /\ UNCHANGED svc_result
     \/ PageError
  /\ UNCHANGED <<svc_links, svc_attempted, svc_homepage>>
  /\ ServiceFrame

\* lines 308-319
StoreKeywordsWithSource ==
  /\ svc_pc = "store"
  /\ \/ /\ Continue
        /\ UNCHANGED svc_result
     \/ PageError
  /\ UNCHANGED <<svc_links, svc_attempted, svc_homepage>>
  /\ ServiceFrame

\* lines 329-336 and 372
ReturnResult ==
  /\ svc_pc = "finish"
  /\ svc_result' = [svc_result EXCEPT !.success = TRUE]
  /\ svc_pc' = "returned"
  /\ UNCHANGED <<svc_links, svc_idx, svc_attempted, svc_homepage>>
  /\ ServiceFrame

(***************************************************************************)
(* Specification SpecServices: one call of crawl_services                  *)
(***************************************************************************)
InitServices ==
  /\ pc = "services"
  /\ svc_pc = "start"
  /\ svc_links = <<>>
  /\ svc_idx = 0
  /\ svc_result = InitialResult
  /\ svc_attempted = {}
  /\ svc_homepage = FALSE
  /\ UrlIdle /\ LinkIdle /\ DedupIdle /\ ExtractIdle /\ ValidIdle
  /\ MenuIdle /\ TextIdle /\ CrawlIdle /\ MigrateIdle

NextServices ==
  \/ ValidateUrl
  \/ FetchHomepage
  \/ FindHomepageLinks
  \/ FetchServicePage
  \/ ExtractServicePage
  \/ GetSectionTypeId
  \/ StoreKeywordsWithSource
  \/ ReturnResult

SpecServices == InitServices /\ [][NextServices]_vars

C27_LinksCountedOnce ==
  svc_result.pages_crawled + svc_result.pages_failed
    <= svc_result.service_links_found

(***************************************************************************)
(* MigrationManager (src/migrate.py): the directory of migration files,    *)
(* the table schema_migrations and the commands create, up and down.       *)
(***************************************************************************)
MaxMigrations == 2

\* the characters of a filename in the order of their code points
CodeOrder == "-.0123456789ABCDEFGHIJKLMNOPQRSTUVWXYZ_abcdefghijklmnopqrstuvwxyz"

Ordinal(c) == CHOOSE i \in 1..Len(CodeOrder) : Char(CodeOrder, i) = c

\* a < b for two str
RECURSIVE StrLess(_, _)
StrLess(a, b) ==
  IF b = "" THEN FALSE
  ELSE IF a = "" THEN TRUE
  ELSE IF Char(a, 1) = Char(b, 1) THEN StrLess(Tail(a), Tail(b))
  ELSE Ordinal(Char(a, 1)) < Ordinal(Char(b, 1))

\* sorted(files)
RECURSIVE Sorted(_)
Sorted(files) ==
  IF files = {} THEN <<>>
  ELSE LET first == CHOOSE f \in files :
                      \A g \in files : f = g \/ StrLess(f, g)
       IN  <<first>> \o Sorted(files \ {first})

\* lines 116-126: sorted(self.migrations_dir.glob('*.sql'))
get_migration_files(files) == Sorted({f \in files : endswith(f, ".sql")})

\* lines 128-138: ORDER BY migration
get_applied_migrations(applied) == Sorted(applied)

\* lines 140-149
get_pending_migrations(files, applied) ==
  SelectSeq(get_migration_files(files), LAMBDA m : m \notin applied)

\* the number in front of a filename: re.match(r'^(\d+)_', last), 0 when
\* there is no match
RECURSIVE DigitRun(_)
DigitRun(s) ==
  IF s # "" /\ Char(s, 1) \in Digits
    THEN Char(s, 1) \o DigitRun(Tail(s)) ELSE ""

DigitValue(c) == Ordinal(c) - Ordinal("0")

RECURSIVE IntOf(_)
IntOf(digits) ==
  IF digits = "" THEN 0
  ELSE 10 * IntOf(SubSeq(digits, 1, Len(digits) - 1))
         + DigitValue(Char(digits, Len(digits)))

\* lines 425-435
NextNumber(files) ==
  LET existing == get_migration_files(files)
      last     == existing[Len(existing)]
      digits   == DigitRun(last)
  IN  IF existing = <<>> THEN 1
      ELSE IF digits # "" /\ Len(last) > Len(digits)
                /\ Char(last, Len(digits) + 1) = "_"
        THEN IntOf(digits) + 1
      ELSE 1

\* line 438: f"{next_num:03d}"
NumStr(n) ==
  (IF n < 10 THEN "00" ELSE IF n < 100 THEN "0" ELSE "") \o ToString(n)

\* lines 441-442
CleanName(name) == CollapseRuns(RemoveSpecial(name), Whitespace \cup {"-"}, "_")

\* lines 445-446
UpFilename(n, name) == NumStr(n) \o "_" \o CleanName(name) \o ".sql"

DownFilename(n, name) == NumStr(n) \o "_" \o CleanName(name) \o "_down.sql"

\* line 237
RollbackFile(migration_name) == replace(migration_name, ".sql", "_down.sql")

\* a rollback script as create_migration names it
IsRollbackScript(f) == endswith(f, "_down.sql")

\* the names given to create
MigrationNames == {"users", "add index!"}

MigrateFrame ==
  UNCHANGED <<pc, urlVars, linkVars, dedupVars, extractVars, validVars,
              menuVars, textVars, crawlVars, serviceVars>>

\* lines 416-470: python migrate.py create <name>
CreateMigration ==
  /\ NextNumber(migration_files) <= MaxMigrations
  /\ \E name \in MigrationNames :
       migration_files' = migration_files \cup
         {UpFilename(NextNumber(migration_files), name),
          DownFilename(NextNumber(migration_files), name)}
  /\ command' = "create"
  /\ executed' = <<>>
  /\ UNCHANGED schema_migrations
  /\ MigrateFrame

\* line 278
Pending(files, applied) == get_pending_migrations(files, applied)

\* lines 271-298 and 176-222: python migrate.py up [--steps=n]; the first
\* applied migrations succeed and the next one, if any is left, fails
MigrateUp ==
  \E steps \in 0..(2 * MaxMigrations) :
    LET pending == Pending(migration_files, schema_migrations)
        limited == IF steps # 0 /\ steps < Len(pending)
                     THEN SubSeq(pending, 1, steps) ELSE pending
    IN  \E applied \in 0..Len(limited) :
          /\ schema_migrations' =
               schema_migrations \cup {limited[i] : i \in 1..applied}
          /\ executed' =
               SubSeq(limited, 1,
                      IF applied < Len(limited) THEN applied + 1 ELSE applied)
          /\ command' = "up"
          /\ UNCHANGED migration_files
          /\ MigrateFrame

\* lines 300-324 and 224-269: python migrate.py down [--steps=n]; the first
\* rollbacks succeed and the next one, if any is left, fails
MigrateDown ==
  \E steps \in 1..(2 * MaxMigrations) :
    LET applied     == get_applied_migrations(schema_migrations)
        first       == IF steps < Len(applied) THEN Len(applied) - steps + 1
                                               ELSE 1
        to_rollback == [i \in 1..(Len(applied) - first + 1) |->
                          applied[Len(applied) - i + 1]]
    IN  \E rolled \in 0..Len(to_rollback) :
          LET attempted == SubSeq(to_rollback, 1,
                                  IF rolled < Len(to_rollback)
                                    THEN rolled + 1 ELSE rolled)
          IN  /\ schema_migrations' =
                   schema_migrations \ {to_rollback[i] : i \in 1..rolled}
              /\ executed' =
                   SelectSeq([i \in 1..Len(attempted) |->
                                RollbackFile(attempted[i])],
                             LAMBDA f : f \in migration_files)
              /\ command' = "down"
              /\ UNCHANGED migration_files
              /\ MigrateFrame

(***************************************************************************)
(* Specification SpecMigrate: any sequence of create, up and down          *)
(***************************************************************************)
InitMigrate ==
  /\ pc = "migrate"
  /\ migration_files \in {{}, {"001_initial_schema.sql"}}
  /\ schema_migrations = {}
  /\ executed = <<>>
  /\ command = None
  /\ UrlIdle /\ LinkIdle /\ DedupIdle /\ ExtractIdle /\ ValidIdle
  /\ MenuIdle /\ TextIdle /\ CrawlIdle /\ ServiceIdle

NextMigrate ==
  \/ CreateMigration
  \/ MigrateUp
  \/ MigrateDown

SpecMigrate == InitMigrate /\ [][NextMigrate]_vars

\* C30: migrate_up executes migrations in ascending filename order, and
\* after any sequence of create, up and down no rollback script
\* (<name>_down.sql) was executed by migrate_up or is recorded as applied.
C30_UpAppliesForwardOnly ==
  /\ \A f \in schema_migrations : ~IsRollbackScript(f)
  /\ command = "up" =>
       /\ \A i \in 1..Len(executed) : ~IsRollbackScript(executed[i])
       /\ \A i, j \in 1..Len(executed) :
            i < j => StrLess(executed[i], executed[j])

====
